---------------------------- MODULE Spec2Model ----------------------------
(***************************************************************************)
(* Website Grader v4 (src/website_grader_v4.py): the fetch with bounded    *)
(* retry, the nine category analyzers and the weighted aggregation of      *)
(* WebsiteGraderV4.analyze_website.                                        *)
(*                                                                         *)
(* Numbers.  Every score of the program is a float that is a multiple of   *)
(* 0.05 (the increments are 2, 1.5, 1, 0.5, 0.25 and 0.2 per resource      *)
(* hint).  The model keeps scores as integers counting twentieths of a     *)
(* point: Pts(1, 2) is the program's 0.5, Pts(1, 5) its 0.2.               *)
(*                                                                         *)
(* Documents.  A parsed page is a record of the facts the analyzers read   *)
(* from it (how many <img> tags, which regular expressions match, ...).    *)
(* A fact read by several analyzers (the <img> counts, the heading counts, *)
(* the mixed-content patterns, the <title>) is one field.                  *)
(***************************************************************************)
EXTENDS Integers, Sequences, FiniteSets, TLC

VARIABLES
    max_retries,   \* self.max_retries, set by the constructor
    weights,       \* self.category_weights
    results,       \* self.results: url id -> entry
    pc,            \* position of the running analyze_website call
    url,           \* its url argument (an id of UrlTable), "" when idle
    retry_count,   \* _get_with_retry's local retry_count
    attempts,      \* requests.get calls made by the running call
    sleeps,        \* time.sleep(1) calls made by the running call
    response,      \* the response of _get_with_retry, NoResponse before it
    pending,       \* the exception in flight to the except clause, "" if none
    invoked,       \* the analyzers the running call has invoked, in order
    probes,        \* how each TLS certificate probe of the running call ended
    ret,           \* what the last finished call returned
    outcome,       \* how the last finished call ended
    call,          \* the last direct call of one analyzer (unit harness)
    comparing,     \* the running or last compare_websites call
    http           \* the /api/analyze request being served and its response

vars == <<max_retries, weights, results, pc, url, retry_count, attempts,
          sleeps, response, pending, invoked, probes, ret, outcome, call,
          comparing, http>>

-----------------------------------------------------------------------------
(* Scores *)

\* the float num/den of the program, in twentieths of a point
Pts(num, den) == (num * 20) \div den

Min(a, b) == IF a <= b THEN a ELSE b
Max(a, b) == IF a >= b THEN a ELSE b

\* a / b * 100 >= p  for counts a, b (b > 0), as the percentage tests compute it
PctAtLeast(a, b, p) == a * 100 >= p * b

\* what one check of an analyzer adds: points, details, issues
Part(s, d, i) == [score |-> s, details |-> d, issues |-> i]
Nothing == Part(0, <<>>, <<>>)

RECURSIVE SumScore(_)
SumScore(parts) ==
    IF parts = <<>> THEN 0 ELSE Head(parts).score + SumScore(Tail(parts))

RECURSIVE CatDetails(_)
CatDetails(parts) ==
    IF parts = <<>> THEN <<>> ELSE Head(parts).details \o CatDetails(Tail(parts))

RECURSIVE CatIssues(_)
CatIssues(parts) ==
    IF parts = <<>> THEN <<>> ELSE Head(parts).issues \o CatIssues(Tail(parts))

\* result = {'score': 0, 'max_score': m, 'details': [], 'issues': []} after the
\* checks of an analyzer have added to it in order
Result(m, parts) ==
    [score |-> SumScore(parts), max_score |-> m,
     details |-> CatDetails(parts), issues |-> CatIssues(parts)]

\* an analyzer either returns a result or raises
Returned(r) == [raised |-> FALSE, result |-> r]
Raised(e) == [raised |-> TRUE, exc |-> e]

-----------------------------------------------------------------------------
(* URLs *)

UrlTable ==
    [shop |-> [text |-> "https://shop.example/pricing", https |-> TRUE,
               query |-> FALSE, pathWords |-> {"pricing"}],
     mirror |-> [text |-> "https://mirror.example/pricing", https |-> TRUE,
                 query |-> FALSE, pathWords |-> {"pricing"}],
     old  |-> [text |-> "http://old.example/index.php?id=7", https |-> FALSE,
               query |-> TRUE, pathWords |-> {"index", "php"}]]

Urls == DOMAIN UrlTable

\* url.startswith('https://')
IsHttps(u) == UrlTable[u].https


-----------------------------------------------------------------------------
(* Documents and responses *)

\* A page with nothing in it: the facts BeautifulSoup and the regular
\* expressions of the analyzers find in an empty body.
EmptyDoc ==
    [htmlLen |-> 0,
     \* <img> tags: all, with a non-empty alt, with an alt attribute, with
     \* loading="lazy" or class lazyload, with srcset or sizes
     imgs |-> 0, imgsAltText |-> 0, imgsAltAttr |-> 0, imgsLazy |-> 0,
     imgsSrcset |-> 0,
     headings |-> <<0, 0, 0, 0, 0, 0>>,      \* how many h1 .. h6
     mixedContent |-> FALSE,                 \* an http:// resource pattern matches
     titleTag |-> FALSE, titleLen |-> 0, titleWords |-> {},
     h1Words |-> {},                         \* \w+ tokens of the first h1
     \* mobile
     viewport |-> "none", mediaQueries |-> 0, mobileMeta |-> 0,
     touchIcons |-> 0, pictureSources |-> 0, smallFonts |-> 0,
     mobileFrameworks |-> {},
     \* page speed
     hints |-> [preload |-> 0, prefetch |-> 0, preconnect |-> 0, dnsPrefetch |-> 0],
     minifiedJs |-> 0, minifiedCss |-> 0, blockingJs |-> 0, blockingCss |-> 0,
     \* tech stack: the keys of the rules whose pattern matches
     techRules |-> {},
     \* ui quality
     favicon |-> FALSE, fonts |-> 0, colors |-> 0, cssFeatures |-> {},
     whitespace |-> 0, mobileMenu |-> FALSE,
     \* seo
     metaDescLen |-> 0, canonical |-> FALSE, structuredData |-> FALSE,
     ogTags |-> 0, twitterTags |-> 0, robots |-> "none", sitemapLink |-> FALSE,
     \* security
     sriTags |-> 0, externalResources |-> 0,
     \* accessibility
     lang |-> FALSE, controls |-> 0, controlsExcluded |-> 0,
     controlsLabeled |-> 0, aria |-> 0, skipLinks |-> 0,
     lightOnLight |-> FALSE, darkOnDark |-> FALSE, tabindex |-> <<>>,
     semantic |-> 0,
     \* content
     words |-> 0, dates |-> 0, recentYears |-> 0, social |-> {},
     contact |-> {}, videos |-> 0, audios |-> 0, interactive |-> 0,
     blog |-> FALSE]

\* requests.Response as the analyzers read it: status_code, elapsed,
\* headers (the names present), cookies, and the parsed body
MakeResponse(status, ms, hdrs, cookies, doc) ==
    [status_code |-> status, elapsedMs |-> ms, headers |-> hdrs,
     cookies |-> cookies, doc |-> doc]

NoResponse == [status_code |-> 0]

-----------------------------------------------------------------------------
(* check_ssl *)

\* Python values of ssl.getpeercert(): a str, or a tuple of values
PyStr(s) == [t |-> "str", s |-> s]
PyTuple(items) == [t |-> "tuple", items |-> items]

\* x == y of Python: a str never equals a tuple
PyEq(x, y) ==
    /\ x.t = y.t
    /\ IF x.t = "str" THEN x.s = y.s ELSE x.items = y.items

\* cert['subject']: a tuple of RDNs, each a tuple of (name, value) pairs
Rdn(name, value) == PyTuple(<<PyTuple(<<PyStr(name), PyStr(value)>>)>>)

PlainSubject == PyTuple(<<Rdn("commonName", "shop.example")>>)
EvSubject ==
    PyTuple(<<Rdn("jurisdictionCountryName", "US"),
              Rdn("businessCategory", "Private Organization"),
              Rdn("commonName", "shop.example")>>)

\* a certificate: notBefore and notAfter in hours relative to datetime.now()
Cert(nb, na, subj) == [notBefore |-> nb, notAfter |-> na, subject |-> subj]

\* what the handshake of the probe ends with
ProbeCert(cert) == [kind |-> "cert", cert |-> cert]
ProbeRaises(e) == [kind |-> "raise", exc |-> e]

\* except (socket.gaierror, socket.timeout, ssl.SSLError, ConnectionRefusedError)
SslCaught == {"gaierror", "timeout", "SSLError", "ConnectionRefusedError"}

SslHttpsPart(u) ==
    IF IsHttps(u) THEN Part(Pts(2, 1), <<"Website uses HTTPS">>, <<>>)
    ELSE Part(0, <<>>, <<"Website does not use HTTPS">>)

SslValidityPart(cert) ==
    IF 0 > cert.notBefore /\ 0 < cert.notAfter
    \* (not_after - now).days
    THEN IF cert.notAfter \div 24 > 90
         THEN Part(Pts(2, 1), <<"SSL certificate is valid until",
                                "SSL certificate expires in (>90 days)">>, <<>>)
         ELSE Part(Pts(1, 1), <<"SSL certificate is valid until">>,
                   <<"SSL certificate expires soon">>)
    ELSE Part(0, <<>>, <<"SSL certificate is not valid">>)

SslIssuerPart == Part(0, <<"Certificate issued by">>, <<>>)

SslEvPart(cert) ==
    \* 'jurisdictionCountryName' in cert.get('subject', [])
    IF \E k \in DOMAIN cert.subject.items :
           PyEq(PyStr("jurisdictionCountryName"), cert.subject.items[k])
    THEN Part(Pts(1, 1), <<"Using Extended Validation (EV) certificate">>, <<>>)
    ELSE Nothing

SslProbeFailedPart(u) ==
    IF IsHttps(u) THEN Part(0, <<>>, <<"SSL certificate check failed">>)
    ELSE Part(0, <<>>, <<"No SSL certificate (using HTTP)">>)

SslMixedPart(u, doc) ==
    IF ~IsHttps(u) THEN Nothing
    ELSE IF ~doc.mixedContent
         THEN Part(Pts(1, 1), <<"No mixed content detected">>, <<>>)
         ELSE Part(0, <<>>, <<"Mixed content detected">>)

check_ssl(u, resp, probe) ==
    IF probe.kind = "cert"
    THEN Returned(Result(5, <<SslHttpsPart(u), SslValidityPart(probe.cert),
                              SslIssuerPart, SslEvPart(probe.cert),
                              SslMixedPart(u, resp.doc)>>))
    ELSE IF probe.exc \in SslCaught
         THEN Returned(Result(5, <<SslHttpsPart(u), SslProbeFailedPart(u),
                                   SslMixedPart(u, resp.doc)>>))
         ELSE Raised(probe.exc)

-----------------------------------------------------------------------------
(* check_mobile *)

MobileViewportPart(doc) ==
    CASE doc.viewport = "configured" ->
           Part(Pts(2, 1), <<"Viewport meta tag", "Viewport properly configured">>, <<>>)
      [] doc.viewport = "plain" ->
           Part(Pts(1, 1), <<"Viewport meta tag">>,
                <<"Viewport meta tag exists but may not be properly configured">>)
      [] OTHER -> Part(0, <<>>, <<"No viewport meta tag found">>)

MobileMediaPart(doc) ==
    IF doc.mediaQueries > 0 THEN Part(Pts(1, 1), <<"Found media queries">>, <<>>)
    ELSE Part(0, <<>>, <<"No media queries found">>)

MobileMetaPart(doc) ==
    IF doc.mobileMeta > 0
    THEN Part(Pts(1, 2), <<"Found mobile-specific meta tags">>, <<>>) ELSE Nothing

MobileTouchPart(doc) ==
    IF doc.touchIcons > 0
    THEN Part(Pts(1, 2), <<"Found touch icons">>, <<>>) ELSE Nothing

\* the four responsive-image patterns searched in the raw HTML: an <img> with
\* srcset or sizes matches the first two, <picture> and <source media> the rest
MobileImagesPart(doc) ==
    IF doc.imgsSrcset + doc.pictureSources > 0
    THEN Part(Pts(1, 1), <<"Found responsive image techniques">>, <<>>)
    ELSE Part(0, <<>>, <<"No responsive image techniques detected">>)

MobileFontsPart(doc) ==
    IF doc.smallFonts = 0
    THEN Part(0, <<"No extremely small font sizes detected">>, <<>>)
    ELSE Part(0, <<>>, <<"Found instances of very small font sizes">>)

\* a faulty bonus: the frameworks are added without the clamp
MobileFrameworkBonusUnclamped(score, k, m) == score + k * Pts(1, 2)

\* result['score'] = min(result['score'] + len(mobile_frameworks) * 0.5, max)
MobileFrameworkBonus(score, k, m) ==
    IF k > 0 THEN Min(score + k * Pts(1, 2), Pts(m, 1)) ELSE score

check_mobile(u, resp) ==
    LET doc == resp.doc
        base == Result(5, <<MobileViewportPart(doc), MobileMediaPart(doc),
                            MobileMetaPart(doc), MobileTouchPart(doc),
                            MobileImagesPart(doc), MobileFontsPart(doc)>>)
        k == Cardinality(doc.mobileFrameworks)
    IN  Returned([base EXCEPT
            !.score = MobileFrameworkBonus(base.score, k, base.max_score),
            !.details = base.details \o
                [j \in 1..k |-> "Using mobile framework"]])

-----------------------------------------------------------------------------
(* check_page_speed *)

\* load_time = response.elapsed.total_seconds()
SpeedLoadPart(resp) ==
    LET ms == resp.elapsedMs
    IN  CASE ms < 1000 ->
               Part(Pts(2, 1), <<"Initial load time", "Excellent load time (< 1 second)">>, <<>>)
          [] ms >= 1000 /\ ms < 2000 ->
               Part(Pts(3, 2), <<"Initial load time", "Good load time (< 2 seconds)">>, <<>>)
          [] ms >= 2000 /\ ms < 3000 ->
               Part(Pts(1, 1), <<"Initial load time", "Average load time (< 3 seconds)">>, <<>>)
          [] ms >= 3000 /\ ms < 5000 ->
               Part(Pts(1, 2), <<"Initial load time", "Slow load time (< 5 seconds)">>, <<>>)
          [] OTHER -> Part(0, <<"Initial load time">>, <<"Very slow load time">>)

\* size_kb = len(html) / 1024
SpeedSizePart(doc) ==
    CASE doc.htmlLen < 50 * 1024 ->
           Part(Pts(1, 1), <<"HTML size", "Small HTML size (< 50 KB)">>, <<>>)
      [] doc.htmlLen >= 50 * 1024 /\ doc.htmlLen < 100 * 1024 ->
           Part(Pts(1, 2), <<"HTML size", "Moderate HTML size (< 100 KB)">>, <<>>)
      [] OTHER -> Part(0, <<"HTML size">>, <<"Large HTML size">>)

RECURSIVE HintDetails(_, _)
HintDetails(doc, types) ==
    IF types = <<>> THEN <<>>
    ELSE (IF doc.hints[Head(types)] > 0 THEN <<"Using resource hint">> ELSE <<>>)
             \o HintDetails(doc, Tail(types))

\* result['score'] += min(resource_hints_count * 0.2, 1)
SpeedHintsPart(doc) ==
    LET resource_hints_count ==
            doc.hints.preload + doc.hints.prefetch + doc.hints.preconnect
                + doc.hints.dnsPrefetch
    IN  Part(IF resource_hints_count > 0
             THEN Min(resource_hints_count * Pts(1, 5), Pts(1, 1)) ELSE 0,
             HintDetails(doc, <<"preload", "prefetch", "preconnect",
                                "dnsPrefetch">>),
             <<>>)

SpeedMinifiedPart(doc) ==
    IF doc.minifiedJs > 0 \/ doc.minifiedCss > 0
    THEN Part(Pts(1, 2), <<"Using minified resources">>, <<>>)
    ELSE Part(0, <<>>, <<"No minified JS or CSS resources detected">>)

SpeedImagesPart(doc) ==
    IF doc.imgs = 0 THEN Nothing
    ELSE IF PctAtLeast(doc.imgsLazy, doc.imgs, 50)
         THEN Part(Pts(1, 2), <<"Images with alt text", "Images with lazy loading",
                                "Good use of lazy loading for images">>, <<>>)
         ELSE IF doc.imgsLazy > 0
              THEN Part(0, <<"Images with alt text", "Images with lazy loading",
                             "Some images use lazy loading">>, <<>>)
              ELSE Part(0, <<"Images with alt text", "Images with lazy loading">>,
                        <<"No lazy loading detected for images">>)

SpeedCachePart(resp) ==
    LET n == Cardinality(resp.headers
                             \cap {"Cache-Control", "ETag", "Expires",
                                   "Last-Modified"})
    IN  IF n >= 2 THEN Part(Pts(1, 2), <<"Using browser caching headers">>, <<>>)
        ELSE IF n > 0 THEN Part(0, <<"Using browser caching header">>, <<>>)
        ELSE Part(0, <<>>, <<"No browser caching headers detected">>)

SpeedCompressionPart(resp) ==
    IF "Content-Encoding" \in resp.headers
    THEN Part(Pts(1, 2), <<"Using compression">>, <<>>)
    ELSE Part(0, <<>>, <<"No compression detected">>)

SpeedBlockingPart(doc) ==
    IF doc.blockingJs = 0 /\ doc.blockingCss = 0
    THEN Part(Pts(1, 2), <<"No render-blocking resources detected">>, <<>>)
    ELSE Part(0, <<>>, <<"Found render-blocking resources">>)

check_page_speed(u, resp) ==
    LET doc == resp.doc
    IN  Returned(Result(5, <<SpeedLoadPart(resp), SpeedSizePart(doc),
                             SpeedHintsPart(doc), SpeedMinifiedPart(doc),
                             SpeedImagesPart(doc), SpeedCachePart(resp),
                             SpeedCompressionPart(resp), SpeedBlockingPart(doc)>>))

-----------------------------------------------------------------------------
(* analyze_tech_stack *)

\* the four rule tables, in the order the loop visits them
ModernFrameworks ==
    <<[key |-> "next", score |-> 5], [key |-> "react", score |-> 4],
      [key |-> "vue3", score |-> 4], [key |-> "nuxt", score |-> 5],
      [key |-> "angular", score |-> 4], [key |-> "svelte", score |-> 4],
      [key |-> "remix", score |-> 5], [key |-> "gatsby", score |-> 4]>>

LegacyFrameworks ==
    <<[key |-> "jquery", score |-> -3], [key |-> "bootstrap", score |-> -1],
      [key |-> "wordpress", score |-> -2], [key |-> "php", score |-> -2],
      [key |-> "aspnet", score |-> -2]>>

ModernFeatures ==
    <<[key |-> "typescript", score |-> 2], [key |-> "es6_plus", score |-> 2],
      [key |-> "web_components", score |-> 2], [key |-> "module_bundler", score |-> 1]>>

Optimizations ==
    <<[key |-> "lazy_loading", score |-> 1], [key |-> "code_splitting", score |-> 1],
      [key |-> "service_worker", score |-> 1], [key |-> "pwa", score |-> 1]>>

TechRules == ModernFrameworks \o LegacyFrameworks \o ModernFeatures \o Optimizations

RuleKeys(table) == {table[k].key : k \in DOMAIN table}

\* the rules whose pattern matches the raw HTML.  The jQuery Mobile marker of
\* check_mobile (jquery.mobile, jquery-mobile) also matches the jquery rule
\* (jquery-|jQuery, case-insensitive).
TechMatches(doc) ==
    doc.techRules \cup
        (IF "jQuery Mobile" \in doc.mobileFrameworks THEN {"jquery"} ELSE {})

RECURSIVE TechParts(_, _)
TechParts(matched, rules) ==
    IF rules = <<>> THEN <<>>
    ELSE (IF Head(rules).key \in matched
          THEN <<Part(Pts(Head(rules).score, 1), <<"Detected">>, <<>>)>>
          ELSE <<>>) \o TechParts(matched, Tail(rules))

\* a faulty penalty: mixing modern and legacy frameworks costs nothing
TechMixingFree(matched) == Nothing

TechMixingPart(matched) ==
    IF matched \cap RuleKeys(ModernFrameworks) # {}
       /\ matched \cap RuleKeys(LegacyFrameworks) # {}
    THEN Part(-Pts(2, 1), <<>>, <<"Mixing modern and legacy technologies">>)
    ELSE Nothing

\* a faulty normalisation: the score is left as the rules summed it
TechUnclamped(score, m) == score

\* result['score'] = max(-5, min(result['score'], result['max_score']))
TechClamp(score, m) == Max(-Pts(5, 1), Min(score, Pts(m, 1)))

TechAdvice(score) ==
    IF score < 0
    THEN <<"Website uses severely outdated technologies",
           "Urgent need for complete modernization">>
    ELSE IF score < Pts(3, 1)
    THEN <<"Consider upgrading to modern frameworks",
           "Implement modern JavaScript features and build tools">>
    ELSE IF score < Pts(7, 1)
    THEN <<"Consider adding more modern optimizations">>
    ELSE <<>>

analyze_tech_stack(u, resp) ==
    LET matched == TechMatches(resp.doc)
        raw == Result(10, TechParts(matched, TechRules) \o <<TechMixingPart(matched)>>)
        clamped == TechClamp(raw.score, raw.max_score)
    IN  Returned([raw EXCEPT !.score = clamped,
                             !.issues = raw.issues \o TechAdvice(clamped)])

-----------------------------------------------------------------------------
(* check_ui_quality *)

\* a faulty rule: a hierarchy without an H1 is never proper
ProperHierarchyFromH1(headings) ==
    /\ headings[1] > 0
    /\ ~ \E k \in 1..(Len(headings) - 1) : headings[k] = 0 /\ headings[k + 1] > 0

\* for i in range(len(headings) - 1):
\*     if headings[i] == 0 and headings[i+1] > 0: proper_hierarchy = False
ProperHierarchy(headings) ==
    ~ \E k \in 1..(Len(headings) - 1) : headings[k] = 0 /\ headings[k + 1] > 0

UiFaviconPart(doc) ==
    IF doc.favicon THEN Part(Pts(1, 2), <<"Website has a favicon">>, <<>>)
    ELSE Part(0, <<>>, <<"No favicon detected">>)

UiH1Part(doc) ==
    IF doc.headings[1] > 0 THEN Part(Pts(1, 2), <<"Website has H1 heading(s)">>, <<>>)
    ELSE Part(0, <<>>, <<"No H1 heading found">>)

UiHierarchyPart(doc) ==
    IF ProperHierarchy(doc.headings)
    THEN Part(Pts(1, 2), <<"Proper heading hierarchy">>, <<>>)
    ELSE Part(0, <<>>, <<"Improper heading hierarchy">>)

UiFontsPart(doc) ==
    IF doc.fonts <= 3 THEN Part(Pts(1, 2), <<"Consistent font usage">>, <<>>)
    ELSE Part(0, <<>>, <<"Too many different fonts">>)

UiColorsPart(doc) ==
    IF doc.colors <= 10 THEN Part(Pts(1, 2), <<"Consistent color palette">>, <<>>)
    ELSE Part(0, <<>>, <<"Inconsistent color usage">>)

UiImagesPart(doc) ==
    IF doc.imgs = 0 THEN Nothing
    ELSE IF PctAtLeast(doc.imgsSrcset, doc.imgs, 50)
         THEN Part(Pts(1, 2), <<"Good use of responsive images">>, <<>>)
         ELSE IF doc.imgsSrcset > 0
              THEN Part(0, <<"Some responsive images">>, <<>>)
              ELSE Part(0, <<>>, <<"No responsive images detected">>)

\* the features with a matching pattern; the @media pattern matches whenever
\* check_mobile's media-query pattern does
UiCssPart(doc) ==
    LET n == Cardinality(doc.cssFeatures
                             \cup (IF doc.mediaQueries > 0
                                   THEN {"Media Queries"} ELSE {}))
    IN  IF n >= 3 THEN Part(Pts(1, 1), <<"Using modern CSS features">>, <<>>)
        ELSE IF n > 0 THEN Part(Pts(1, 2), <<"Using some modern CSS features">>, <<>>)
        ELSE Part(0, <<>>, <<"No modern CSS features detected">>)

UiWhitespacePart(doc) ==
    IF doc.whitespace > 20
    THEN Part(Pts(1, 2), <<"Good use of whitespace in layout">>, <<>>)
    ELSE IF doc.whitespace > 10
    THEN Part(0, <<"Some use of whitespace in layout">>, <<>>)
    ELSE Part(0, <<>>, <<"Limited use of whitespace in layout">>)

UiMenuPart(doc) ==
    IF doc.mobileMenu THEN Part(Pts(1, 2), <<"Mobile menu detected">>, <<>>)
    ELSE Part(0, <<>>, <<"No mobile menu detected">>)

check_ui_quality(u, resp) ==
    LET doc == resp.doc
    IN  Returned(Result(5, <<UiFaviconPart(doc), UiH1Part(doc), UiHierarchyPart(doc),
                             UiFontsPart(doc), UiColorsPart(doc), UiImagesPart(doc),
                             UiCssPart(doc), UiWhitespacePart(doc), UiMenuPart(doc)>>))

-----------------------------------------------------------------------------
(* check_seo *)

\* title and title.text.strip(): a <title> with text
SeoTitlePart(doc) ==
    IF ~(doc.titleTag /\ doc.titleLen > 0) THEN Part(0, <<>>, <<"Missing title tag">>)
    ELSE IF 10 <= doc.titleLen /\ doc.titleLen <= 60
         THEN Part(Pts(1, 1), <<"Title tag", "Title length is optimal">>, <<>>)
         ELSE IF doc.titleLen < 10
              THEN Part(Pts(1, 2), <<"Title tag">>, <<"Title is too short">>)
              ELSE Part(Pts(1, 2), <<"Title tag">>, <<"Title is too long">>)

SeoDescriptionPart(doc) ==
    IF doc.metaDescLen = 0 THEN Part(0, <<>>, <<"Missing meta description">>)
    ELSE IF 50 <= doc.metaDescLen /\ doc.metaDescLen <= 160
         THEN Part(Pts(1, 1), <<"Meta description",
                                "Meta description length is optimal">>, <<>>)
         ELSE IF doc.metaDescLen < 50
              THEN Part(Pts(1, 2), <<"Meta description">>,
                        <<"Meta description is too short">>)
              ELSE Part(Pts(1, 2), <<"Meta description">>,
                        <<"Meta description is too long">>)

SeoCanonicalPart(doc) ==
    IF doc.canonical THEN Part(Pts(1, 2), <<"Canonical URL">>, <<>>)
    ELSE Part(0, <<>>, <<"No canonical URL specified">>)

\* the single-H1 bonus
SeoSingleH1Part(doc) ==
    IF doc.headings[1] = 0 THEN Part(0, <<>>, <<"No H1 tag found">>)
    ELSE IF doc.headings[1] = 1
         THEN Part(Pts(1, 2), <<"Single H1 tag (recommended)">>, <<>>)
         ELSE Part(0, <<>>, <<"Multiple H1 tags found">>)

\* if title and h1_tags[0].text.strip(): a Tag is truthy even when empty
SeoH1KeywordsPart(doc) ==
    IF doc.headings[1] > 0 /\ doc.titleTag /\ doc.h1Words # {}
       /\ Cardinality(doc.titleWords \cap doc.h1Words) >= 2
    THEN Part(Pts(1, 4), <<"H1 contains keywords from title">>, <<>>)
    ELSE Nothing

\* a faulty image check: the alt-text percentage is scored even without <img>
SeoImagesUnguarded(doc) ==
    IF PctAtLeast(doc.imgsAltText, doc.imgs, 80)
    THEN Part(Pts(1, 2), <<"Images with alt text",
                           "Good use of alt text for images">>, <<>>)
    ELSE Part(0, <<"Images with alt text">>,
              <<"Poor use of alt text for images">>)

SeoImagesPart(doc) ==
    IF doc.imgs = 0 THEN Nothing
    ELSE IF PctAtLeast(doc.imgsAltText, doc.imgs, 80)
         THEN Part(Pts(1, 2), <<"Images with alt text",
                                "Good use of alt text for images">>, <<>>)
         ELSE IF PctAtLeast(doc.imgsAltText, doc.imgs, 50)
              THEN Part(Pts(1, 4), <<"Images with alt text",
                                     "Moderate use of alt text for images">>, <<>>)
              ELSE Part(0, <<"Images with alt text">>,
                        <<"Poor use of alt text for images">>)

SeoStructuredPart(doc) ==
    IF doc.structuredData
    THEN Part(Pts(1, 2), <<"Structured data (Schema.org) detected">>, <<>>)
    ELSE Part(0, <<>>, <<"No structured data detected">>)

SeoOpenGraphPart(doc) ==
    IF doc.ogTags > 0 THEN Part(Pts(1, 4), <<"Open Graph tags">>, <<>>)
    ELSE Part(0, <<>>, <<"No Open Graph tags found">>)

SeoTwitterPart(doc) ==
    IF doc.twitterTags > 0 THEN Part(Pts(1, 4), <<"Twitter Card tags">>, <<>>)
    ELSE Part(0, <<>>, <<"No Twitter Card tags found">>)

SeoCleanUrlPart(u) ==
    IF ~UrlTable[u].query THEN Part(Pts(1, 4), <<"Clean URL structure">>, <<>>)
    ELSE Nothing

SeoUrlKeywordsPart(u, doc) ==
    IF doc.titleTag /\ doc.titleWords \cap UrlTable[u].pathWords # {}
    THEN Part(Pts(1, 4), <<"URL contains keywords from title">>, <<>>)
    ELSE Nothing

SeoRobotsPart(doc) ==
    CASE doc.robots = "none" -> Part(0, <<"No robots meta tag">>, <<>>)
      [] doc.robots = "noindex" ->
           Part(0, <<"Robots meta tag">>, <<"Page is set to noindex or nofollow">>)
      [] OTHER -> Part(0, <<"Robots meta tag">>, <<>>)

SeoSitemapPart(doc) ==
    IF doc.sitemapLink THEN Part(Pts(1, 4), <<"Sitemap link found in HTML">>, <<>>)
    ELSE Nothing

check_seo(u, resp) ==
    LET doc == resp.doc
    IN  Returned(Result(5, <<SeoTitlePart(doc), SeoDescriptionPart(doc),
                             SeoCanonicalPart(doc), SeoSingleH1Part(doc),
                             SeoH1KeywordsPart(doc), SeoImagesPart(doc),
                             SeoStructuredPart(doc), SeoOpenGraphPart(doc),
                             SeoTwitterPart(doc), SeoCleanUrlPart(u),
                             SeoUrlKeywordsPart(u, doc), SeoRobotsPart(doc),
                             SeoSitemapPart(doc)>>))

-----------------------------------------------------------------------------
(* check_security_headers *)

SecurityHeaderNames ==
    {"Strict-Transport-Security", "Content-Security-Policy",
     "X-Content-Type-Options", "X-Frame-Options", "X-XSS-Protection",
     "Referrer-Policy", "Feature-Policy", "Permissions-Policy"}

ImportantHeaders ==
    {"Strict-Transport-Security", "Content-Security-Policy", "X-Content-Type-Options"}

SecHttpsPart(u) ==
    IF IsHttps(u) THEN Part(Pts(1, 1), <<"Website uses HTTPS">>, <<>>)
    ELSE Part(0, <<>>, <<"Website does not use HTTPS (major security issue)">>)

HeadersFound(resp) == resp.headers \cap SecurityHeaderNames

\* a faulty tier table: the top tier is worth less than the one below it
HeaderBonusDipping(n) ==
    IF n >= 5 THEN Pts(1, 1)
    ELSE IF n >= 3 THEN Pts(3, 2)
    ELSE IF n >= 1 THEN Pts(1, 1)
    ELSE 0

\* the tier of len(headers_found)
HeaderBonus(n) ==
    IF n >= 5 THEN Pts(2, 1)
    ELSE IF n >= 3 THEN Pts(3, 2)
    ELSE IF n >= 1 THEN Pts(1, 1)
    ELSE 0

SecHeadersPart(resp) ==
    LET n == Cardinality(HeadersFound(resp))
        found == [j \in 1..n |-> "Security header"]
    IN  IF n >= 5
        THEN Part(HeaderBonus(n), found \o <<"Excellent security headers implementation">>, <<>>)
        ELSE IF n >= 3
        THEN Part(HeaderBonus(n), found \o <<"Good security headers implementation">>, <<>>)
        ELSE IF n >= 1
        THEN Part(HeaderBonus(n), found \o <<"Basic security headers implementation">>, <<>>)
        ELSE Part(HeaderBonus(n), <<>>, <<"No security headers implemented">>)

SecMissingPart(resp) ==
    IF ImportantHeaders \ HeadersFound(resp) # {}
    THEN Part(0, <<>>, <<"Missing important security headers">>)
    ELSE Nothing

CountWhere(cookies, flag) ==
    Cardinality({k \in DOMAIN cookies : cookies[k][flag]})

SecCookiesPart(resp) ==
    LET n == Len(resp.cookies)
        secure == CountWhere(resp.cookies, "secure")
        httponly == CountWhere(resp.cookies, "httpOnly")
        samesite == IF CountWhere(resp.cookies, "sameSite") > 0
                    THEN <<"Cookies with SameSite attribute">> ELSE <<>>
    IN  IF n = 0 THEN Part(0, <<"No cookies detected">>, <<>>)
        ELSE IF secure = n /\ httponly = n
        THEN Part(Pts(1, 1), <<"Total cookies",
                               "All cookies use Secure and HttpOnly flags">>
                             \o samesite, <<>>)
        ELSE IF PctAtLeast(secure, n, 50) /\ PctAtLeast(httponly, n, 50)
        THEN Part(Pts(1, 2), <<"Total cookies", "Some cookies use security flags">>
                             \o samesite, <<>>)
        ELSE Part(0, <<"Total cookies">> \o samesite, <<"Poor cookie security">>)

SecSriPart(doc) ==
    IF doc.externalResources = 0 THEN Nothing
    ELSE IF PctAtLeast(doc.sriTags, doc.externalResources, 50)
         THEN Part(Pts(1, 2), <<"Good use of Subresource Integrity (SRI)">>, <<>>)
         ELSE IF doc.sriTags > 0
              THEN Part(0, <<"Some use of Subresource Integrity (SRI)">>, <<>>)
              ELSE Part(0, <<>>, <<"No Subresource Integrity (SRI) detected">>)

SecMixedPart(u, doc) ==
    IF ~IsHttps(u) THEN Nothing
    ELSE IF ~doc.mixedContent
         THEN Part(Pts(1, 2), <<"No mixed content detected">>, <<>>)
         ELSE Part(0, <<>>, <<"Mixed content detected">>)

check_security_headers(u, resp) ==
    Returned(Result(5, <<SecHttpsPart(u), SecHeadersPart(resp), SecMissingPart(resp),
                         SecCookiesPart(resp), SecSriPart(resp.doc),
                         SecMixedPart(u, resp.doc)>>))

-----------------------------------------------------------------------------
(* check_accessibility *)

A11yLangPart(doc) ==
    IF doc.lang THEN Part(Pts(1, 2), <<"Language attribute specified">>, <<>>)
    ELSE Part(0, <<>>, <<"No language attribute specified">>)

A11yImagesPart(doc) ==
    IF doc.imgs = 0 THEN Nothing
    ELSE IF doc.imgsAltAttr = doc.imgs
         THEN Part(Pts(1, 1), <<"All images have alt attributes">>, <<>>)
         ELSE IF PctAtLeast(doc.imgsAltAttr, doc.imgs, 80)
              THEN Part(Pts(1, 2), <<"Most images have alt attributes">>, <<>>)
              ELSE IF doc.imgsAltAttr > 0
                   THEN Part(0, <<>>, <<"Only some images have alt attributes">>)
                   ELSE Part(0, <<>>, <<"No images have alt attributes">>)

\* label_percentage = (labeled_controls / len(form_controls)) * 100: the
\* controls of an excluded type are skipped by the loop that counts the labelled
\* ones and are counted by len(form_controls)
A11yLabelsPart(doc) ==
    IF doc.controls > 0 /\ doc.controlsLabeled > 0
    THEN IF doc.controlsLabeled = doc.controls
         THEN Part(Pts(1, 1), <<"All form controls have labels">>, <<>>)
         ELSE IF PctAtLeast(doc.controlsLabeled, doc.controls, 80)
              THEN Part(Pts(1, 2), <<"Most form controls have labels">>, <<>>)
              ELSE Part(0, <<>>, <<"Only some form controls have labels">>)
    ELSE IF doc.controls > 0
         THEN Part(0, <<>>, <<"No form controls have labels">>)
         ELSE Nothing

A11yAriaPart(doc) ==
    IF doc.aria > 0 THEN Part(Pts(1, 2), <<"Using ARIA attributes">>, <<>>)
    ELSE Nothing

A11ySkipPart(doc) ==
    IF doc.skipLinks > 0
    THEN Part(Pts(1, 2), <<"Skip links detected for keyboard navigation">>, <<>>)
    ELSE Part(0, <<>>, <<"No skip links detected for keyboard navigation">>)

A11yContrastPart(doc) ==
    IF ~doc.lightOnLight /\ ~doc.darkOnDark
    THEN Part(Pts(1, 2), <<"No obvious color contrast issues detected">>, <<>>)
    ELSE Part(0, <<>>,
              (IF doc.lightOnLight
               THEN <<"Light text on light background detected">> ELSE <<>>)
              \o (IF doc.darkOnDark
                  THEN <<"Dark text on dark background detected">> ELSE <<>>))

\* int(s) on the tabindex values of the modelled pages: the value, or a
\* ValueError for text that is no integer literal
PyInt(s) ==
    CASE s = "-1" -> [ok |-> TRUE, value |-> -1]
      [] s = "0"  -> [ok |-> TRUE, value |-> 0]
      [] s = "1"  -> [ok |-> TRUE, value |-> 1]
      [] s = "2"  -> [ok |-> TRUE, value |-> 2]
      [] OTHER    -> [ok |-> FALSE, value |-> 0]

\* el.get('tabindex') and int(el.get('tabindex')) ...: an empty value is falsy
\* and is not converted
TabindexRaises(values) ==
    \E k \in DOMAIN values : values[k] # "" /\ ~PyInt(values[k]).ok

A11yTabindexPart(doc) ==
    LET vals == doc.tabindex
        negative == Cardinality({k \in DOMAIN vals :
                                    vals[k] # "" /\ PyInt(vals[k]).value < 0})
        custom == Cardinality({k \in DOMAIN vals :
                                  vals[k] # "" /\ PyInt(vals[k]).value > 0})
    IN  IF vals = <<>> THEN Part(0, <<"No custom tabindex attributes">>, <<>>)
        ELSE Part(0, <<"Elements with tabindex attribute">>,
                  (IF negative > 0
                   THEN <<"elements removed from keyboard tab order">> ELSE <<>>)
                  \o (IF custom > 0
                      THEN <<"elements with custom tab order (tabindex > 0)">>
                      ELSE <<>>))

A11ySemanticPart(doc) ==
    IF doc.semantic >= 4
    THEN Part(Pts(1, 2), <<"Good use of semantic HTML5 elements">>, <<>>)
    ELSE IF doc.semantic > 0
    THEN Part(0, <<"Some use of semantic HTML5 elements">>, <<>>)
    ELSE Part(0, <<>>, <<"No semantic HTML5 elements detected">>)

A11yHeadingsPart(doc) ==
    IF doc.headings[1] > 0
    THEN IF ProperHierarchy(doc.headings)
         THEN Part(Pts(1, 2), <<"Proper heading hierarchy for screen readers">>, <<>>)
         ELSE Part(0, <<>>, <<"Improper heading hierarchy (skipping levels)">>)
    ELSE Part(0, <<>>, <<"No H1 heading found">>)

check_accessibility(u, resp) ==
    LET doc == resp.doc
    IN  IF TabindexRaises(doc.tabindex) THEN Raised("ValueError")
        ELSE Returned(Result(5, <<A11yLangPart(doc), A11yImagesPart(doc),
                                  A11yLabelsPart(doc), A11yAriaPart(doc),
                                  A11ySkipPart(doc), A11yContrastPart(doc),
                                  A11yTabindexPart(doc), A11ySemanticPart(doc),
                                  A11yHeadingsPart(doc)>>))

-----------------------------------------------------------------------------
(* check_content_quality *)

ContentWordsPart(doc) ==
    IF doc.words >= 1000
    THEN Part(Pts(1, 1), <<"Word count", "Substantial content (1000+ words)">>, <<>>)
    ELSE IF doc.words >= 500
    THEN Part(Pts(1, 2), <<"Word count", "Moderate content (500+ words)">>, <<>>)
    ELSE IF doc.words >= 300
    THEN Part(0, <<"Word count", "Minimal content (300+ words)">>, <<>>)
    ELSE Part(0, <<"Word count">>, <<"Very little content">>)

\* dates: matches of the date patterns; recentYears: the 20xx years of the
\* text that are at most two years old
ContentDatesPart(doc) ==
    IF doc.dates = 0 THEN Part(0, <<>>, <<"No date indicators found">>)
    ELSE IF doc.recentYears > 0
         THEN Part(Pts(1, 1), <<"Content contains date references",
                                "Content mentions recent years">>, <<>>)
         ELSE Part(Pts(1, 2), <<"Content contains date references">>,
                   <<"No recent years mentioned in content">>)

ContentSocialPart(doc) ==
    IF doc.social # {} THEN Part(Pts(1, 2), <<"Social media links">>, <<>>)
    ELSE Part(0, <<>>, <<"No social media links found">>)

ContentContactPart(doc) ==
    IF doc.contact # {} THEN Part(Pts(1, 2), <<"Contact information">>, <<>>)
    ELSE Part(0, <<>>, <<"No contact information found">>)

ContentVideoPart(doc) ==
    IF doc.videos > 0 THEN Part(Pts(1, 2), <<"Video content">>, <<>>) ELSE Nothing

ContentAudioPart(doc) ==
    IF doc.audios > 0 THEN Part(Pts(1, 4), <<"Audio content">>, <<>>) ELSE Nothing

ContentInteractivePart(doc) ==
    IF doc.interactive > 0 THEN Part(Pts(1, 2), <<"Interactive elements">>, <<>>)
    ELSE Nothing

ContentBlogPart(doc) ==
    IF doc.blog THEN Part(Pts(1, 4), <<"Blog or news section detected">>, <<>>)
    ELSE Nothing

check_content_quality(u, resp) ==
    LET doc == resp.doc
    IN  Returned(Result(5, <<ContentWordsPart(doc), ContentDatesPart(doc),
                             ContentSocialPart(doc), ContentContactPart(doc),
                             ContentVideoPart(doc), ContentAudioPart(doc),
                             ContentInteractivePart(doc), ContentBlogPart(doc)>>))

-----------------------------------------------------------------------------
(* The grader: __init__, _get_with_retry, analyze_website *)

CategoryOrder ==
    <<"ssl", "mobile", "page_speed", "tech_stack", "ui_quality", "seo",
      "security", "accessibility", "content">>

\* self.category_weights
CategoryWeights ==
    [ssl |-> 10, mobile |-> 15, page_speed |-> 15, tech_stack |-> 25,
     ui_quality |-> 10, seo |-> 5, security |-> 10, accessibility |-> 5,
     content |-> 5]

\* the max_retries default of __init__ and of the --retries option
DefaultMaxRetries == 2

PyNone == [none |-> TRUE]
NoException == [exc |-> "", stage |-> ""]

\* a faulty dispatch: check_content_quality finds the seo result of the run in
\* self.results and returns it as its own
RunAnalyzerSharing(name, u, resp, probe) ==
    CASE name = "ssl" -> check_ssl(u, resp, probe)
      [] name = "mobile" -> check_mobile(u, resp)
      [] name = "page_speed" -> check_page_speed(u, resp)
      [] name = "tech_stack" -> analyze_tech_stack(u, resp)
      [] name = "ui_quality" -> check_ui_quality(u, resp)
      [] name = "seo" -> check_seo(u, resp)
      [] name = "security" -> check_security_headers(u, resp)
      [] name = "accessibility" -> check_accessibility(u, resp)
      [] name = "content" ->
           IF /\ u \in DOMAIN results
              /\ "categories" \in DOMAIN results[u]
              /\ "seo" \in DOMAIN results[u].categories
           THEN Returned(results[u].categories["seo"])
           ELSE check_content_quality(u, resp)

\* the call of one analyzer at lines 160-168
RunAnalyzer(name, u, resp, probe) ==
    CASE name = "ssl" -> check_ssl(u, resp, probe)
      [] name = "mobile" -> check_mobile(u, resp)
      [] name = "page_speed" -> check_page_speed(u, resp)
      [] name = "tech_stack" -> analyze_tech_stack(u, resp)
      [] name = "ui_quality" -> check_ui_quality(u, resp)
      [] name = "seo" -> check_seo(u, resp)
      [] name = "security" -> check_security_headers(u, resp)
      [] name = "accessibility" -> check_accessibility(u, resp)
      [] name = "content" -> check_content_quality(u, resp)

\* self.results[url] = {...} at line 148; load_time and timestamp are clock
\* readings, kept as opaque values
FreshEntry(u, resp) ==
    [url |-> UrlTable[u].text, load_time |-> "measured",
     status_code |-> resp.status_code, categories |-> <<>>, total_score |-> 0,
     max_score |-> 100, percentage |-> 0, timestamp |-> "now"]

\* a faulty except clause: the error entry keeps the totals of a fresh entry
ErrorEntryWithTotals(u, e) ==
    [url |-> UrlTable[u].text, error |-> e, timestamp |-> "now",
     categories |-> <<>>, total_score |-> 0]

\* self.results[url] = {...} at line 208
ErrorEntry(u, e) ==
    [url |-> UrlTable[u].text, error |-> e, timestamp |-> "now"]

\* a faulty lookup: every category gets the default weight of .get
UnitWeight(w, category) == 1

\* self.category_weights.get(category, 1.0)
WeightOf(w, category) == IF category \in DOMAIN w THEN w[category] ELSE 1

\* (category_percentage * weight) / 100 with
\* category_percentage = (result['score'] / result['max_score']) * 100
WeightedTerm(result, weight) == (result.score * weight) \div result.max_score

\* the loop over self.results[url]['categories'].items(), in insertion order
RECURSIVE TotalOver(_, _, _)
TotalOver(categories, w, order) ==
    IF order = <<>> THEN 0
    ELSE (IF Head(order) \in DOMAIN categories
          THEN WeightedTerm(categories[Head(order)], WeightOf(w, Head(order)))
          ELSE 0) + TotalOver(categories, w, Tail(order))

\* a faulty rounding: a negative total is reported as 0
Round1Floored(t) == IF t < 0 THEN 0 ELSE t - (t % 2)

\* round(total_score, 1), on twentieths and in twentieths.  An odd number of
\* twentieths lies halfway between two tenths; round() then goes by the binary
\* value of the float, which for the sums of this module is the side of the
\* even tenth (the floats 79.95 and 75.95 round to 80.0 and 76.0).
Round1(t) ==
    IF t % 2 = 0 THEN t
    ELSE IF ((t + 1) \div 2) % 2 = 0 THEN t + 1 ELSE t - 1

\* the if/elif chain at lines 184-198
Classify(total) ==
    IF total >= Pts(80, 1)
    THEN [classification |-> "Excellent", lead_potential |-> "Low-Priority Lead"]
    ELSE IF total >= Pts(65, 1)
    THEN [classification |-> "Good", lead_potential |-> "Maintenance Lead"]
    ELSE IF total >= Pts(50, 1)
    THEN [classification |-> "Average", lead_potential |-> "Potential Lead"]
    ELSE IF total >= Pts(35, 1)
    THEN [classification |-> "Outdated", lead_potential |-> "Potential Lead"]
    ELSE [classification |-> "Poor", lead_potential |-> "High-Priority Lead"]

\* a faulty aggregation: the sum does not start from 0 but from one point per
\* entry the grader already holds for another URL
AggregatedOnto(entry, w) ==
    LET total == TotalOver(entry.categories, w, CategoryOrder)
                     + Pts(Cardinality(DOMAIN results) - 1, 1)
        class == Classify(total)
    IN  [url |-> entry.url, load_time |-> entry.load_time,
         status_code |-> entry.status_code, categories |-> entry.categories,
         total_score |-> Round1(total), max_score |-> 100,
         percentage |-> total, timestamp |-> entry.timestamp,
         classification |-> class.classification,
         lead_potential |-> class.lead_potential]

\* lines 170-201: the entry with its totals and its classification
Aggregated(entry, w) ==
    LET total == TotalOver(entry.categories, w, CategoryOrder)
        class == Classify(total)
    IN  [url |-> entry.url, load_time |-> entry.load_time,
         status_code |-> entry.status_code, categories |-> entry.categories,
         total_score |-> Round1(total), max_score |-> 100,
         percentage |-> total, timestamp |-> entry.timestamp,
         classification |-> class.classification,
         lead_potential |-> class.lead_potential]

\* a faulty test: 404 is taken for the blocked status
IsBlockedOn404(resp) == resp.status_code = 404

\* response.status_code == 403
IsBlocked(resp) == resp.status_code = 403

-----------------------------------------------------------------------------
(* The pages, responses and certificates the model fetches *)

\* a page that earns every point of every analyzer
RichPage ==
    [EmptyDoc EXCEPT
        !.htmlLen = 20000,
        !.imgs = 4, !.imgsAltText = 4, !.imgsAltAttr = 4, !.imgsLazy = 4,
        !.imgsSrcset = 4,
        !.headings = <<1, 2, 1, 0, 0, 0>>,
        !.titleTag = TRUE, !.titleLen = 28,
        !.titleWords = {"shop", "pricing", "plans"},
        !.h1Words = {"pricing", "plans"},
        !.viewport = "configured", !.mediaQueries = 3, !.mobileMeta = 1,
        !.touchIcons = 1,
        !.hints = [preload |-> 3, prefetch |-> 0, preconnect |-> 2, dnsPrefetch |-> 0],
        !.minifiedJs = 2,
        !.techRules = {"next", "react", "typescript", "lazy_loading"},
        !.favicon = TRUE, !.fonts = 2, !.colors = 6,
        !.cssFeatures = {"Flexbox", "Grid", "Transitions"},
        !.whitespace = 30, !.mobileMenu = TRUE,
        !.metaDescLen = 120, !.canonical = TRUE, !.structuredData = TRUE,
        !.ogTags = 4, !.twitterTags = 2, !.robots = "index", !.sitemapLink = TRUE,
        !.sriTags = 2, !.externalResources = 3,
        !.lang = TRUE, !.controls = 2, !.controlsLabeled = 2, !.aria = 3,
        !.skipLinks = 1, !.tabindex = <<"0">>, !.semantic = 5,
        !.words = 1200, !.dates = 2, !.recentYears = 1, !.social = {"Twitter"},
        !.contact = {"Email link"}, !.videos = 1, !.audios = 1,
        !.interactive = 2, !.blog = TRUE]

\* the same site with two resource hints, a bundler as its only technology
\* marker and no sitemap link
EdgePage ==
    [RichPage EXCEPT
        !.hints = [preload |-> 2, prefetch |-> 0, preconnect |-> 0, dnsPrefetch |-> 0],
        !.techRules = {"module_bundler"},
        !.sitemapLink = FALSE]

\* a large, slow, legacy page that earns nothing
LegacyPage ==
    [EmptyDoc EXCEPT
        !.htmlLen = 150000, !.imgs = 3,
        !.headings = <<0, 2, 0, 0, 0, 0>>, !.mixedContent = TRUE,
        !.techRules = {"jquery", "wordpress", "php"},
        !.fonts = 5, !.colors = 14, !.whitespace = 4,
        !.blockingJs = 3, !.blockingCss = 2,
        !.controls = 2, !.lightOnLight = TRUE, !.words = 120]

\* a page one of whose elements carries tabindex="first"
BrokenTabindexPage == [RichPage EXCEPT !.tabindex = <<"1", "first">>]

AllSecureCookie == [secure |-> TRUE, httpOnly |-> TRUE, sameSite |-> TRUE]

RichHeaders ==
    SecurityHeaderNames \cup {"Cache-Control", "ETag", "Content-Encoding"}

\* what each URL's server can answer with, whatever the status
Served ==
    [shop |-> {[elapsedMs |-> 400, headers |-> RichHeaders,
                cookies |-> <<AllSecureCookie>>, doc |-> RichPage],
               [elapsedMs |-> 400, headers |-> RichHeaders,
                cookies |-> <<AllSecureCookie>>, doc |-> EdgePage]},
     mirror |-> {[elapsedMs |-> 400, headers |-> RichHeaders,
                  cookies |-> <<AllSecureCookie>>, doc |-> EdgePage]},
     old  |-> {[elapsedMs |-> 6000, headers |-> {}, cookies |-> <<>>,
                doc |-> LegacyPage],
               [elapsedMs |-> 400, headers |-> RichHeaders,
                cookies |-> <<AllSecureCookie>>, doc |-> BrokenTabindexPage]}]

StatusCodes == {200, 403, 404}

\* how the certificate probe of a run can end: with a certificate issued 100
\* days ago that has 200 days left, with the same certificate carrying
\* Extended-Validation subject fields, with a timeout, with a reset connection
RunProbes ==
    {ProbeCert(Cert(-(100 * 24), 200 * 24, PlainSubject)),
     ProbeCert(Cert(-(100 * 24), 200 * 24, EvSubject)),
     ProbeRaises("timeout"), ProbeRaises("ConnectionResetError")}

NoCall == [fn |-> ""]

\* no compare_websites call has been made.  Of a call: its urls argument, the
\* index k of the url the loop is at, the keys of its local results dict in
\* insertion order, and how it ended.
NoComparison ==
    [phase |-> "none", urls |-> <<>>, k |-> 0, collected |-> <<>>,
     out |-> Returned(PyNone)]

\* no /api/analyze request has been served.  Of a request: whether the engine
\* is running for it or the response is out, whether the engine ran for it,
\* the HTTP status code and the JSON body
NoHttp == [phase |-> "none", ran |-> FALSE, code |-> 0, body |-> <<>>]

\* the probe argument of the analyzers that open none
NoProbe == ProbeRaises("")

-----------------------------------------------------------------------------
(* Actions *)

Init ==
    \* the graders of the model: no attempt at all (a negative --retries),
    \* no retry, and the default
    /\ max_retries \in {-1, 0, DefaultMaxRetries}
    /\ weights = CategoryWeights
    /\ results = <<>>
    /\ pc = "idle"
    /\ url = ""
    /\ retry_count = 0
    /\ attempts = 0
    /\ sleeps = 0
    /\ response = NoResponse
    /\ pending = NoException
    /\ invoked = <<>>
    /\ probes = <<>>
    /\ ret = PyNone
    /\ outcome = ""
    /\ call = NoCall
    /\ comparing = NoComparison
    /\ http = NoHttp

\* analyze_website(url) is called: line 134 enters _get_with_retry
Start(u) ==
    /\ pc = "idle"
    /\ pc' = "fetch"
    /\ url' = u
    /\ retry_count' = 0
    /\ attempts' = 0
    /\ sleeps' = 0
    /\ response' = NoResponse
    /\ pending' = NoException
    /\ invoked' = <<>>
    /\ probes' = <<>>
    /\ ret' = PyNone
    /\ outcome' = "running"
    /\ UNCHANGED <<max_retries, weights, results, call,
                   comparing, http>>

\* a faulty loop test: one more round than max_retries allows
LoopRunsOnceMore == retry_count <= max_retries + 1

\* the loop test of line 106
LoopRuns == retry_count <= max_retries

\* requests.get returns a response (of any status): line 109 returns it
GetResponds(status) ==
    /\ pc = "fetch"
    /\ LoopRuns
    /\ attempts' = attempts + 1
    /\ \E served \in Served[url] :
           response' = MakeResponse(status, served.elapsedMs, served.headers,
                                    served.cookies, served.doc)
    /\ pc' = "fetched"
    /\ UNCHANGED <<max_retries, weights, results, url, retry_count, sleeps,
                   pending, invoked, probes, ret, outcome, call,
                   comparing, http>>

\* requests.get raises a RequestException or an ssl.SSLError: lines 110-116
GetFails ==
    /\ pc = "fetch"
    /\ LoopRuns
    /\ attempts' = attempts + 1
    /\ retry_count' = retry_count + 1
    /\ IF retry_count + 1 > max_retries
       THEN /\ pending' = [exc |-> "RequestException", stage |-> "fetch"]
            /\ pc' = "except"
       ELSE /\ pending' = pending
            /\ pc' = "sleep"
    /\ UNCHANGED <<max_retries, weights, results, url, sleeps, response,
                   invoked, probes, ret, outcome, call,
                   comparing, http>>

\* time.sleep(1) at line 116, then the loop again
Sleep ==
    /\ pc = "sleep"
    /\ sleeps' = sleeps + 1
    /\ pc' = "fetch"
    /\ UNCHANGED <<max_retries, weights, results, url, retry_count, attempts,
                   response, pending, invoked, probes, ret, outcome, call,
                   comparing, http>>

\* the loop never runs (max_retries < 0): _get_with_retry falls off its end
\* and returns None, and response.status_code at line 137 raises
GetReturnsNone ==
    /\ pc = "fetch"
    /\ ~LoopRuns
    /\ pending' = [exc |-> "AttributeError", stage |-> "fetch"]
    /\ pc' = "except"
    /\ UNCHANGED <<max_retries, weights, results, url, retry_count, attempts,
                   sleeps, response, invoked, probes, ret, outcome, call,
                   comparing, http>>

\* a faulty blocked branch: it records the blocked URL before returning None
BlockedStoresEntry ==
    /\ pc = "fetched"
    /\ IsBlocked(response)
    /\ results' = (url :> ErrorEntry(url, "Forbidden")) @@ results
    /\ ret' = PyNone
    /\ outcome' = "blocked"
    /\ pc' = "idle"
    /\ UNCHANGED <<max_retries, weights, url, retry_count, attempts,
                   sleeps, response, pending, invoked, probes, call,
                   comparing, http>>

\* lines 137-142: a 403 response ends the call with None
Blocked ==
    /\ pc = "fetched"
    /\ IsBlocked(response)
    /\ ret' = PyNone
    /\ outcome' = "blocked"
    /\ pc' = "idle"
    /\ UNCHANGED <<max_retries, weights, results, url, retry_count, attempts,
                   sleeps, response, pending, invoked, probes, call,
                   comparing, http>>

\* lines 144-157: any other response is parsed and gets a fresh entry
BeginAnalysis ==
    /\ pc = "fetched"
    /\ ~IsBlocked(response)
    /\ results' = (url :> FreshEntry(url, response)) @@ results
    /\ pc' = "analyze"
    /\ UNCHANGED <<max_retries, weights, url, retry_count, attempts, sleeps,
                   response, pending, invoked, probes, ret, outcome, call,
                   comparing, http>>

\* the analyzer the run calls next
NextAnalyzer == CategoryOrder[Len(invoked) + 1]

\* one of the calls of lines 160-168 has ended with `out`: its result is
\* stored under its key, or its exception leaves the try block
AfterAnalyzer(name, out) ==
    /\ invoked' = Append(invoked, name)
    /\ IF out.raised
       THEN /\ pending' = [exc |-> out.exc, stage |-> name]
            /\ pc' = "except"
            /\ results' = results
       ELSE /\ pending' = pending
            /\ pc' = IF Len(invoked) + 1 = Len(CategoryOrder)
                     THEN "aggregate" ELSE "analyze"
            /\ results' = [results EXCEPT ![url].categories =
                               (name :> out.result) @@ @]

\* line 160: check_ssl, which opens the certificate probe
RunSsl(probe) ==
    /\ pc = "analyze"
    /\ NextAnalyzer = "ssl"
    /\ probes' = Append(probes, probe)
    /\ AfterAnalyzer("ssl", check_ssl(url, response, probe))
    /\ UNCHANGED <<max_retries, weights, url, retry_count, attempts, sleeps,
                   response, ret, outcome, call,
                   comparing, http>>

\* lines 161-168: the next of the other eight analyzers
RunOther ==
    /\ pc = "analyze"
    /\ NextAnalyzer # "ssl"
    /\ AfterAnalyzer(NextAnalyzer,
                     RunAnalyzer(NextAnalyzer, url, response, NoProbe))
    /\ UNCHANGED <<max_retries, weights, url, retry_count, attempts, sleeps,
                   response, probes, ret, outcome, call,
                   comparing, http>>

\* a faulty aggregation step: it writes the default weight into the table for
\* the last category it read
AggregateTouchingWeights ==
    /\ pc = "aggregate"
    /\ results' = [results EXCEPT ![url] = Aggregated(@, weights)]
    /\ weights' = [weights EXCEPT !["content"] = 1]
    /\ ret' = results'[url]
    /\ outcome' = "success"
    /\ pc' = "idle"
    /\ UNCHANGED <<max_retries, url, retry_count, attempts, sleeps,
                   response, pending, invoked, probes, call, comparing, http>>

\* lines 170-203: totals, classification, return self.results[url]
Aggregate ==
    /\ pc = "aggregate"
    /\ results' = [results EXCEPT ![url] = Aggregated(@, weights)]
    /\ ret' = results'[url]
    /\ outcome' = "success"
    /\ pc' = "idle"
    /\ UNCHANGED <<max_retries, weights, url, retry_count, attempts, sleeps,
                   response, pending, invoked, probes, call,
                   comparing, http>>

\* a faulty except clause: it adds the error to the entry the run has filled
\* so far instead of replacing the entry
ExceptKeepsEntry ==
    /\ pc = "except"
    /\ results' = IF url \in DOMAIN results
                  THEN [results EXCEPT ![url] = [error |-> pending.exc] @@ @]
                  ELSE (url :> ErrorEntry(url, pending.exc)) @@ results
    /\ ret' = results'[url]
    /\ outcome' = "error"
    /\ pc' = "idle"
    /\ UNCHANGED <<max_retries, weights, url, retry_count, attempts, sleeps,
                   response, pending, invoked, probes, call,
                   comparing, http>>

\* a faulty except clause: it stores the error entry and raises again
ExceptReraises ==
    /\ pc = "except"
    /\ results' = (url :> ErrorEntry(url, pending.exc)) @@ results
    /\ outcome' = "raised"
    /\ pc' = "idle"
    /\ UNCHANGED <<max_retries, weights, url, retry_count, attempts, sleeps,
                   response, pending, invoked, probes, ret, call,
                   comparing, http>>

\* lines 205-213: except Exception stores and returns an error entry
Except ==
    /\ pc = "except"
    /\ results' = (url :> ErrorEntry(url, pending.exc)) @@ results
    /\ ret' = results'[url]
    /\ outcome' = "error"
    /\ pc' = "idle"
    /\ UNCHANGED <<max_retries, weights, url, retry_count, attempts, sleeps,
                   response, pending, invoked, probes, call,
                   comparing, http>>

Next ==
    \/ \E u \in Urls : Start(u)
    \/ \E status \in StatusCodes : GetResponds(status)
    \/ GetFails
    \/ Sleep
    \/ GetReturnsNone
    \/ Blocked
    \/ BeginAnalysis
    \/ \E probe \in RunProbes : RunSsl(probe)
    \/ RunOther
    \/ Aggregate
    \/ Except

Spec == Init /\ [][Next]_vars

-----------------------------------------------------------------------------
(* One analyzer called directly on a page, over every page of a bounded    *)
(* family per analyzer                                                     *)

\* the largest number of <img> tags and of form controls of a page
MaxItems == 5
\* the largest number of resource-hint links of a page
MaxHints == 6
\* the largest number of technology rules one page matches
MaxMatches == 3

\* the call record of a direct call
Called(fn, u, resp, probe, out) ==
    [fn |-> fn, url |-> u, response |-> resp, probe |-> probe, out |-> out]

\* a 200 response with the given body
PageResponse(doc) == MakeResponse(200, 400, {}, <<>>, doc)

\* the exceptions the certificate probe ends with: the four check_ssl names
\* and two it does not name
ProbeExceptions == SslCaught \cup {"ConnectionResetError", "OSError"}

CallSsl ==
    LET certs == {Cert(nb, na, subj) :
                     nb \in {-(100 * 24), 5},
                     na \in {-24, 12, 90 * 24 + 5, 91 * 24, 200 * 24},
                     subj \in {PlainSubject, EvSubject}}
        probeEnds == {ProbeCert(c) : c \in certs}
                         \cup {ProbeRaises(e) : e \in ProbeExceptions}
        docs == {[EmptyDoc EXCEPT !.mixedContent = mc] : mc \in BOOLEAN}
    IN  /\ call = NoCall
        /\ \E u \in Urls, probe \in probeEnds, doc \in docs :
              call' = Called("ssl", u, PageResponse(doc), probe,
                             check_ssl(u, PageResponse(doc), probe))
        /\ UNCHANGED <<max_retries, weights, results, pc, url, retry_count,
                      attempts, sleeps, response, pending, invoked, probes,
                      ret, outcome, comparing, http>>

CallMobile ==
    LET docs ==
          {[EmptyDoc EXCEPT !.viewport = v, !.mediaQueries = mq,
                            !.mobileMeta = mm, !.touchIcons = ti, !.imgs = sr,
                            !.imgsSrcset = sr, !.smallFonts = sf,
                            !.mobileFrameworks = fw] :
              v \in {"none", "plain", "configured"}, mq \in {0, 2},
              mm \in {0, 1}, ti \in {0, 1}, sr \in {0, 1}, sf \in {0, 1},
              fw \in SUBSET {"jQuery Mobile", "Ionic", "Framework7",
                                "Onsen UI", "Google AMP"}}
    IN  /\ call = NoCall
        /\ \E u \in Urls, doc \in docs :
              call' = Called("mobile", u, PageResponse(doc), NoProbe,
                             check_mobile(u, PageResponse(doc)))
        /\ UNCHANGED <<max_retries, weights, results, pc, url, retry_count,
                      attempts, sleeps, response, pending, invoked, probes,
                      ret, outcome, comparing, http>>

CallPageSpeed ==
    LET \* (all, lazy) <img> counts
        imgShapes == {<<0, 0>>, <<MaxItems, 0>>, <<MaxItems, 1>>,
                      <<MaxItems, MaxItems>>}
        docs ==
          {[EmptyDoc EXCEPT !.htmlLen = len, !.hints.preload = h,
                            !.minifiedJs = mj, !.imgs = im[1],
                            !.imgsLazy = im[2], !.blockingJs = bj] :
              len \in {50 * 1024 - 1, 50 * 1024, 100 * 1024},
              h \in 0..MaxHints, mj \in {0, 1}, im \in imgShapes,
              bj \in {0, 1}}
        responses ==
          {MakeResponse(200, ms, hdrs, <<>>, doc) :
              ms \in {999, 1000, 2000, 3000, 5000},
              hdrs \in SUBSET {"Cache-Control", "ETag", "Content-Encoding"},
              doc \in docs}
    IN  /\ call = NoCall
        /\ \E u \in {"shop"}, resp \in responses :
              call' = Called("page_speed", u, resp, NoProbe,
                             check_page_speed(u, resp))
        /\ UNCHANGED <<max_retries, weights, results, pc, url, retry_count,
                      attempts, sleeps, response, pending, invoked, probes,
                      ret, outcome, comparing, http>>

CallTechStack ==
    LET docs ==
          {[EmptyDoc EXCEPT !.techRules = rules] :
              rules \in {T \in SUBSET RuleKeys(TechRules) :
                            Cardinality(T) <= MaxMatches}}
    IN  /\ call = NoCall
        /\ \E u \in {"shop"}, doc \in docs :
              call' = Called("tech_stack", u, PageResponse(doc), NoProbe,
                             analyze_tech_stack(u, PageResponse(doc)))
        /\ UNCHANGED <<max_retries, weights, results, pc, url, retry_count,
                      attempts, sleeps, response, pending, invoked, probes,
                      ret, outcome, comparing, http>>

CallUiQuality ==
    LET \* heading counts h1 .. h6
        headingShapes ==
          {<<0, 0, 0, 0, 0, 0>>, <<1, 0, 0, 0, 0, 0>>, <<1, 2, 1, 0, 0, 0>>,
           <<0, 1, 0, 0, 0, 0>>, <<1, 0, 1, 0, 0, 0>>,
           <<1, 1, 1, 1, 1, 2>>, <<1, 1, 1, 1, 0, 1>>}
        docs ==
          {[EmptyDoc EXCEPT !.favicon = fav, !.headings = hs, !.fonts = fo,
                            !.colors = co, !.imgs = im[1],
                            !.imgsSrcset = im[2], !.cssFeatures = css,
                            !.mediaQueries = mq, !.whitespace = ws,
                            !.mobileMenu = menu] :
              fav \in BOOLEAN, hs \in headingShapes, fo \in {3, 4},
              co \in {10, 11}, im \in {<<0, 0>>, <<2, 0>>, <<2, 1>>},
              css \in {{}, {"Flexbox"}, {"Flexbox", "Grid", "Transitions"}},
              mq \in {0, 1}, ws \in {10, 20, 21}, menu \in BOOLEAN}
    IN  /\ call = NoCall
        /\ \E u \in {"shop"}, doc \in docs :
              call' = Called("ui_quality", u, PageResponse(doc), NoProbe,
                             check_ui_quality(u, PageResponse(doc)))
        /\ UNCHANGED <<max_retries, weights, results, pc, url, retry_count,
                      attempts, sleeps, response, pending, invoked, probes,
                      ret, outcome, comparing, http>>

CallSeo ==
    LET \* (titleTag, titleLen, titleWords)
        titles == {<<FALSE, 0, {}>>, <<TRUE, 0, {}>>, <<TRUE, 4, {"shop"}>>,
                   <<TRUE, 28, {"shop", "pricing", "plans"}>>,
                   <<TRUE, 61, {"shop", "pricing", "plans"}>>}
        \* (number of h1, words of the first h1)
        h1s == {<<0, {}>>, <<1, {}>>, <<1, {"pricing", "plans"}>>,
                <<2, {"pricing", "plans"}>>}
        docs ==
          {[EmptyDoc EXCEPT
               !.titleTag = t[1], !.titleLen = t[2], !.titleWords = t[3],
               !.metaDescLen = d, !.headings[1] = h[1], !.h1Words = h[2],
               !.imgs = im[1], !.imgsAltText = im[2], !.imgsAltAttr = im[2],
               !.canonical = "canonical" \in flags,
               !.structuredData = "structured" \in flags,
               !.sitemapLink = "sitemap" \in flags,
               !.ogTags = IF "og" \in flags THEN 1 ELSE 0,
               !.twitterTags = IF "twitter" \in flags THEN 1 ELSE 0,
               !.robots = IF "noindex" \in flags THEN "noindex" ELSE "none"] :
              t \in titles, d \in {0, 49, 50}, h \in h1s,
              im \in {<<0, 0>>, <<MaxItems, MaxItems - 1>>, <<MaxItems, 1>>},
              flags \in SUBSET {"canonical", "structured", "sitemap", "og",
                                "twitter", "noindex"}}
    IN  /\ call = NoCall
        /\ \E u \in Urls, doc \in docs :
              call' = Called("seo", u, PageResponse(doc), NoProbe,
                             check_seo(u, PageResponse(doc)))
        /\ UNCHANGED <<max_retries, weights, results, pc, url, retry_count,
                      attempts, sleeps, response, pending, invoked, probes,
                      ret, outcome, comparing, http>>

CallSecurity ==
    LET cookieLists ==
          {<<>>, <<AllSecureCookie>>,
           <<AllSecureCookie,
             [secure |-> TRUE, httpOnly |-> FALSE, sameSite |-> FALSE]>>,
           <<AllSecureCookie,
             [secure |-> FALSE, httpOnly |-> TRUE, sameSite |-> FALSE]>>,
           <<[secure |-> FALSE, httpOnly |-> FALSE, sameSite |-> FALSE]>>}
        docs ==
          {[EmptyDoc EXCEPT !.externalResources = sri[1], !.sriTags = sri[2],
                            !.mixedContent = mc] :
              sri \in {<<0, 0>>, <<2, 0>>, <<2, 1>>}, mc \in BOOLEAN}
        responses ==
          {MakeResponse(200, 400, hdrs, cookies, doc) :
              hdrs \in SUBSET SecurityHeaderNames, cookies \in cookieLists,
              doc \in docs}
    IN  /\ call = NoCall
        /\ \E u \in Urls, resp \in responses :
              call' = Called("security", u, resp, NoProbe,
                             check_security_headers(u, resp))
        /\ UNCHANGED <<max_retries, weights, results, pc, url, retry_count,
                      attempts, sleeps, response, pending, invoked, probes,
                      ret, outcome, comparing, http>>

CallAccessibility ==
    LET \* (all controls, controls of an excluded type, labelled controls)
        controlShapes ==
          {<<0, 0, 0>>, <<MaxItems, 0, 0>>, <<MaxItems, 0, MaxItems - 1>>,
           <<MaxItems, 0, MaxItems>>, <<MaxItems, 1, MaxItems - 1>>,
           <<MaxItems, 2, MaxItems - 2>>}
        \* heading counts h1 .. h6
        headingShapes ==
          {<<0, 0, 0, 0, 0, 0>>, <<1, 0, 0, 0, 0, 0>>, <<1, 2, 1, 0, 0, 0>>,
           <<0, 1, 0, 0, 0, 0>>, <<1, 0, 1, 0, 0, 0>>,
           <<1, 1, 1, 1, 1, 2>>, <<1, 1, 1, 1, 0, 1>>}
        tabindexLists == {<<>>, <<"0", "-1", "2">>, <<"">>, <<"1", "first">>}
        docs ==
          {[EmptyDoc EXCEPT
               !.lang = "lang" \in flags,
               !.aria = IF "aria" \in flags THEN 1 ELSE 0,
               !.skipLinks = IF "skip" \in flags THEN 1 ELSE 0,
               !.lightOnLight = "light" \in flags,
               !.imgs = im[1], !.imgsAltAttr = im[2],
               !.controls = c[1], !.controlsExcluded = c[2],
               !.controlsLabeled = c[3],
               !.tabindex = tab, !.semantic = sem, !.headings = hs] :
              flags \in SUBSET {"lang", "aria", "skip", "light"},
              im \in {<<0, 0>>, <<MaxItems, 0>>, <<MaxItems, MaxItems - 1>>,
                      <<MaxItems, MaxItems>>},
              c \in controlShapes, tab \in tabindexLists, sem \in {3, 4},
              hs \in headingShapes}
    IN  /\ call = NoCall
        /\ \E u \in {"shop"}, doc \in docs :
              call' = Called("accessibility", u, PageResponse(doc), NoProbe,
                             check_accessibility(u, PageResponse(doc)))
        /\ UNCHANGED <<max_retries, weights, results, pc, url, retry_count,
                      attempts, sleeps, response, pending, invoked, probes,
                      ret, outcome, comparing, http>>

CallContent ==
    LET docs ==
          {[EmptyDoc EXCEPT
               !.words = w, !.dates = d[1], !.recentYears = d[2],
               !.social = IF "social" \in flags THEN {"Twitter"} ELSE {},
               !.contact = IF "contact" \in flags THEN {"Email link"} ELSE {},
               !.videos = IF "video" \in flags THEN 1 ELSE 0,
               !.audios = IF "audio" \in flags THEN 1 ELSE 0,
               !.interactive = IF "form" \in flags THEN 1 ELSE 0,
               !.blog = "blog" \in flags] :
              w \in {299, 300, 499, 500, 999, 1000},
              d \in {<<0, 0>>, <<1, 0>>, <<1, 1>>},
              flags \in SUBSET {"social", "contact", "video", "audio", "form",
                                "blog"}}
    IN  /\ call = NoCall
        /\ \E u \in {"shop"}, doc \in docs :
              call' = Called("content", u, PageResponse(doc), NoProbe,
                             check_content_quality(u, PageResponse(doc)))
        /\ UNCHANGED <<max_retries, weights, results, pc, url, retry_count,
                      attempts, sleeps, response, pending, invoked, probes,
                      ret, outcome, comparing, http>>

AnalyzerNext ==
    \/ CallSsl
    \/ CallMobile
    \/ CallPageSpeed
    \/ CallTechStack
    \/ CallUiQuality
    \/ CallSeo
    \/ CallSecurity
    \/ CallAccessibility
    \/ CallContent

\* a grader constructed with the defaults
AnalyzerInit == Init /\ max_retries = DefaultMaxRetries

\* one analyzer is called once on it
AnalyzerSpec == AnalyzerInit /\ [][AnalyzerNext]_vars

-----------------------------------------------------------------------------
(* Properties of analyze_website and _get_with_retry *)

\* C1: in every successful run the classification and the lead tier are the
\* ones the thresholds 80 / 65 / 50 / 35 assign to the reported total_score
\* (the rounded value), so a reported 80.0, 65.0, 50.0 or 35.0 gets the
\* higher tier.
ClassificationOfReportedTotal ==
    LET tier(score) ==
          IF score >= Pts(80, 1) THEN <<"Excellent", "Low-Priority Lead">>
          ELSE IF score >= Pts(65, 1) THEN <<"Good", "Maintenance Lead">>
          ELSE IF score >= Pts(50, 1) THEN <<"Average", "Potential Lead">>
          ELSE IF score >= Pts(35, 1) THEN <<"Outdated", "Potential Lead">>
          ELSE <<"Poor", "High-Priority Lead">>
    IN  outcome = "success" =>
            <<ret.classification, ret.lead_potential>> = tier(ret.total_score)

\* C2: in every successful run total_score is the sum over the nine fixed
\* keys of (score / max_score * 100) * weight / 100 with the fixed weight of
\* each key, rounded to one decimal place.
TotalIsRoundedWeightedSum ==
    LET term(key, weight) ==
          (((ret.categories[key].score * 100) \div ret.categories[key].max_score)
              * weight) \div 100
        sum == term("ssl", 10) + term("mobile", 15) + term("page_speed", 15)
                 + term("tech_stack", 25) + term("ui_quality", 10)
                 + term("seo", 5) + term("security", 10)
                 + term("accessibility", 5) + term("content", 5)
        \* the two tenths nearest to the sum
        below == sum - (sum % 2)
    IN  outcome = "success" =>
            /\ ret.total_score \in {below, below + 2}
            /\ sum % 2 = 0 => ret.total_score = sum

\* a successful run has returned a total that rounding has changed
RoundedTotalReturned ==
    /\ outcome = "success"
    /\ ret.total_score # ret.percentage
    /\ ret.categories["tech_stack"].score > 0

\* C4: in every successful run total_score is at most 100.
TotalAtMostHundred ==
    outcome = "success" => ret.total_score <= Pts(100, 1)

\* C5: when the fetched response has status 403 the call returns None, does
\* not raise, invokes no analyzer, opens no certificate probe and computes
\* no category.
BlockedRunsNothing ==
    response.status_code = 403 =>
        /\ pc \in {"fetched", "idle"}
        /\ invoked = <<>>
        /\ probes = <<>>
        /\ pending = NoException
        /\ pc = "idle" => outcome = "blocked" /\ ret = PyNone

\* a call whose response was 403 has returned
BlockedReturned ==
    pc = "idle" /\ outcome = "blocked" /\ response.status_code = 403

\* C6: an error inside one analyzer (other than a failing certificate probe)
\* does not abort the run: the run ends having called all nine analyzers and
\* returns a result with categories.
AnalyzerErrorIsolated ==
    (/\ outcome \in {"success", "error"}
     /\ pending.stage \in {CategoryOrder[k] : k \in DOMAIN CategoryOrder}
     /\ ~(pending.stage = "ssl" /\ pending.exc \in ProbeExceptions))
    => /\ Len(invoked) = Len(CategoryOrder)
       /\ "categories" \in DOMAIN ret

\* C7: every normal run (a response arrived and its status is not 403)
\* returns a result whose categories map has exactly the nine keys, each with
\* score, max_score, details and issues.
NormalRunHasNineCategories ==
    (outcome \in {"success", "error"} /\ response.status_code \notin {0, 403})
    => IF "categories" \in DOMAIN ret
       THEN /\ DOMAIN ret.categories =
                   {CategoryOrder[k] : k \in DOMAIN CategoryOrder}
            /\ \A key \in DOMAIN ret.categories :
                   DOMAIN ret.categories[key] =
                       {"score", "max_score", "details", "issues"}
       ELSE FALSE

\* C8: a certificate probe that fails, in whatever way, does not abort the
\* run: the run succeeds with all nine categories, and its ssl result has an
\* issue and no certificate-derived points (at most the 2 points of the
\* scheme and the 1 point of the mixed-content scan).
ProbeFailureNeverAborts ==
    (/\ outcome \in {"success", "error"}
     /\ probes # <<>>
     /\ probes[1].kind = "raise")
    => /\ outcome = "success"
       /\ Len(invoked) = Len(CategoryOrder)
       /\ ret.categories["ssl"].issues # <<>>
       /\ ret.categories["ssl"].score <= Pts(3, 1)

\* C9: the three outcomes are told apart by what is returned: a blocked run
\* returns None; a run whose fetch failed returns an entry with 'error' and
\* without 'categories', 'total_score' and 'classification'; a successful
\* run returns an entry with those three and without 'error'.
OutcomesDistinguishable ==
    LET fields == {"categories", "total_score", "classification"}
    IN  /\ outcome = "blocked" => ret = PyNone
        /\ (outcome = "error" /\ pending.stage = "fetch") =>
               /\ ret # PyNone
               /\ "error" \in DOMAIN ret
               /\ fields \cap DOMAIN ret = {}
        /\ outcome = "success" =>
               /\ ret # PyNone
               /\ fields \subseteq DOMAIN ret
               /\ "error" \notin DOMAIN ret

\* a run has returned its error entry after the last retry of the fetch failed
FetchFailureReturned ==
    /\ outcome = "error"
    /\ pending = [exc |-> "RequestException", stage |-> "fetch"]
    /\ max_retries > 0
    /\ attempts = max_retries + 1

\* C10: _get_with_retry makes at most max_retries + 1 attempts, a further
\* attempt only after an attempt raised, none after an attempt got a
\* response (whatever its status); it pauses once between two consecutive
\* attempts and not after the last.
RetryDiscipline ==
    /\ attempts <= Max(max_retries + 1, 0)
    /\ pc = "fetch" =>
           response = NoResponse /\ attempts = retry_count /\ sleeps = attempts
    /\ pc = "sleep" =>
           /\ response = NoResponse
           /\ attempts = retry_count
           /\ attempts <= max_retries
           /\ sleeps = attempts - 1
    /\ (pc \notin {"fetch", "sleep"} /\ outcome # "") =>
           /\ sleeps = Max(attempts - 1, 0)
           /\ attempts = retry_count + (IF response = NoResponse THEN 0 ELSE 1)

\* the fetch has returned a 404 response from its second attempt
ResponseAfterOneRetry ==
    /\ pc = "fetched"
    /\ response.status_code = 404
    /\ attempts = 2
    /\ sleeps = 1

-----------------------------------------------------------------------------
(* Properties of the analyzers *)

\* C3: for every page and response, each of the eight analyzers other than
\* analyze_tech_stack returns a score with 0 <= score <= max_score (5).
ScoreWithinMax ==
    (call.fn \notin {"", "tech_stack"} /\ ~call.out.raised) =>
        /\ call.out.result.max_score = 5
        /\ 0 <= call.out.result.score
        /\ call.out.result.score <= Pts(call.out.result.max_score, 1)

-----------------------------------------------------------------------------
(* Further properties of the fetch and of the aggregation *)

\* C11: whatever max_retries is, a fetch that ends without a response has
\* raised the transport failure of its last allowed attempt (attempt number
\* max_retries + 1): _get_with_retry never returns without a response.
FetchReturnsResponseOrRaises ==
    (pc \notin {"fetch", "sleep"} /\ outcome # "" /\ response = NoResponse) =>
        /\ pending = [exc |-> "RequestException", stage |-> "fetch"]
        /\ attempts = max_retries + 1

\* C13: only the tech_stack term can be negative and the total is not floored
\* at 0: in every successful run the other eight scores are at least 0,
\* total_score is at least -12.5, and it is negative when the tech_stack score
\* is negative and the other eight scores are 0.
TotalNotFloored ==
    LET others == {CategoryOrder[k] : k \in DOMAIN CategoryOrder} \ {"tech_stack"}
    IN  outcome = "success" =>
            /\ \A key \in others : ret.categories[key].score >= 0
            /\ ret.total_score >= -Pts(25, 2)
            /\ (/\ ret.categories["tech_stack"].score < 0
                /\ \A key \in others : ret.categories[key].score = 0)
               => ret.total_score < 0

\* a run has returned the lowest total: tech_stack at -5 and nothing else
LowestTotalReturned ==
    /\ outcome = "success"
    /\ ret.categories["tech_stack"].score = -Pts(5, 1)
    /\ \A k \in DOMAIN CategoryOrder :
           CategoryOrder[k] # "tech_stack" => ret.categories[CategoryOrder[k]].score = 0
    /\ ret.total_score = -Pts(25, 2)

-----------------------------------------------------------------------------
(* Further properties of the analyzers *)

\* C12: for every combination of matching rules the score analyze_tech_stack
\* returns satisfies -5 <= score <= 10.
TechScoreWithinBounds ==
    call.fn = "tech_stack" =>
        /\ ~call.out.raised
        /\ -Pts(5, 1) <= call.out.result.score
        /\ call.out.result.score <= Pts(10, 1)

\* three frameworks worth 15 points have matched and the score returned is 10
TechScoreClampedAtTen ==
    /\ call.fn = "tech_stack"
    /\ call.response.doc.techRules = {"next", "nuxt", "remix"}
    /\ call.out.result.score = Pts(10, 1)

\* C14: before clamping, the tech_stack score is the sum of the deltas of all
\* matching rules of the four tables, minus 2 once when at least one modern
\* framework and at least one legacy framework matched; a page matching only
\* React and jQuery scores -1.
TechScoreIsSumOfDeltas ==
    LET delta == [next |-> 5, react |-> 4, vue3 |-> 4, nuxt |-> 5, angular |-> 4,
                  svelte |-> 4, remix |-> 5, gatsby |-> 4,
                  jquery |-> -3, bootstrap |-> -1, wordpress |-> -2, php |-> -2,
                  aspnet |-> -2,
                  typescript |-> 2, es6_plus |-> 2, web_components |-> 2,
                  module_bundler |-> 1,
                  lazy_loading |-> 1, code_splitting |-> 1, service_worker |-> 1,
                  pwa |-> 1]
        modern == {"next", "react", "vue3", "nuxt", "angular", "svelte", "remix",
                   "gatsby"}
        legacy == {"jquery", "bootstrap", "wordpress", "php", "aspnet"}
        RECURSIVE sum(_)
        sum(S) == IF S = {} THEN 0
                  ELSE LET x == CHOOSE y \in S : TRUE
                       IN  delta[x] + sum(S \ {x})
        matched == call.response.doc.techRules
        penalty == IF matched \cap modern # {} /\ matched \cap legacy # {}
                   THEN 2 ELSE 0
        before == sum(matched) - penalty
        clamped == IF before < -5 THEN -5 ELSE IF before > 10 THEN 10 ELSE before
    IN  call.fn = "tech_stack" =>
            /\ call.out.result.score = Pts(clamped, 1)
            /\ matched = {"react", "jquery"} =>
                   call.out.result.score = -Pts(1, 1)

\* a page matching two modern frameworks and a legacy one has been scored
\* 4 + 4 - 3 - 2 = 3
TechMixedPageScored ==
    /\ call.fn = "tech_stack"
    /\ call.response.doc.techRules = {"react", "vue3", "jquery"}
    /\ call.out.result.score = Pts(3, 1)

\* C15: check_ssl's score is the sum of its signals: 2 for an https:// URL,
\* 1 when now is inside the certificate's validity window, 1 more when more
\* than 90 days remain (only together with the validity point), 1 for an EV
\* subject field, 1 when the URL is HTTPS and no mixed content is found; an
\* HTTPS page with a valid certificate 200 days from expiry, no EV field and
\* no mixed content scores 5.
SslScoreIsSumOfSignals ==
    LET probe == call.probe
        got == probe.kind = "cert"
        https == UrlTable[call.url].https
        valid == got /\ probe.cert.notBefore < 0 /\ probe.cert.notAfter > 0
        long == valid /\ probe.cert.notAfter \div 24 > 90
        ev == got /\ \E k \in DOMAIN probe.cert.subject.items :
                         probe.cert.subject.items[k] =
                             Rdn("jurisdictionCountryName", "US")
        clean == https /\ ~call.response.doc.mixedContent
        one(b) == IF b THEN 1 ELSE 0
    IN  (call.fn = "ssl" /\ ~call.out.raised) =>
            call.out.result.score =
                Pts(2 * one(https) + one(valid) + one(long) + one(ev) + one(clean), 1)

\* C16: on a document without <img> tags check_seo, check_accessibility and
\* check_page_speed return normally and record no image-related detail or
\* issue (every image-related score comes with such a detail).
NoImagesNoImageChecks ==
    LET imageNotes ==
          {"Images with alt text", "Images with lazy loading",
           "Good use of lazy loading for images", "Some images use lazy loading",
           "No lazy loading detected for images",
           "Good use of alt text for images", "Moderate use of alt text for images",
           "Poor use of alt text for images", "All images have alt attributes",
           "Most images have alt attributes",
           "Only some images have alt attributes", "No images have alt attributes"}
        notes(r) == {r.details[k] : k \in DOMAIN r.details}
                        \cup {r.issues[k] : k \in DOMAIN r.issues}
    IN  (/\ call.fn \in {"seo", "accessibility", "page_speed"}
         /\ call.response.doc.imgs = 0
         /\ ~call.out.raised)
        => notes(call.out.result) \cap imageNotes = {}

\* check_seo has returned for a page without <img> that earns its other checks
SeoScoredWithoutImages ==
    /\ call.fn = "seo"
    /\ call.response.doc.imgs = 0
    /\ ~call.out.raised
    /\ call.out.result.score = Pts(5, 1)

-----------------------------------------------------------------------------
(* Properties of the grader across runs *)

\* C17: two runs with identical nine category results report identical
\* total_score, classification and lead_potential, whatever runs the grader
\* made before each of them.
AggregationDeterministic ==
    \A u1, u2 \in DOMAIN results :
        (/\ "categories" \in DOMAIN results[u1]
         /\ "categories" \in DOMAIN results[u2]
         /\ "classification" \in DOMAIN results[u1]
         /\ "classification" \in DOMAIN results[u2]
         /\ results[u1].categories = results[u2].categories)
        => /\ results[u1].total_score = results[u2].total_score
           /\ results[u1].classification = results[u2].classification
           /\ results[u1].lead_potential = results[u2].lead_potential

\* the grader holds the results of three runs, two of which (on different
\* URLs) produced the same nine category results
SameCategoriesTwice ==
    /\ DOMAIN results = {"shop", "mirror", "old"}
    /\ pc = "idle"
    /\ outcome = "success"
    /\ "classification" \in DOMAIN results["shop"]
    /\ "classification" \in DOMAIN results["mirror"]
    /\ results["shop"].categories = results["mirror"].categories

-----------------------------------------------------------------------------
(* compare_websites, as main() calls it: on a newly constructed grader *)

\* _generate_comparison(results), for a non-empty results dict.  The category
\* averages skip the entries without 'categories'; result['total_score'] at
\* line 1626 is read from every entry; line 1639 reads the name `urls`, which
\* is neither a local nor a global of the module.
_generate_comparison(entries) ==
    IF \E k \in DOMAIN entries : "total_score" \notin DOMAIN entries[k]
    THEN Raised("KeyError")
    ELSE IF entries # <<>>
         THEN Raised("NameError")
         ELSE Returned([urls |-> <<>>, results |-> <<>>,
                        summary |-> [category_averages |-> <<>>]])

\* compare_websites(urls) is called
CompareStart(urls) ==
    /\ comparing = NoComparison
    /\ pc = "idle"
    /\ outcome = ""
    /\ comparing' = [phase |-> "loop", urls |-> urls, k |-> 1,
                     collected |-> <<>>, out |-> Returned(PyNone)]
    /\ UNCHANGED <<max_retries, weights, results, pc, url, retry_count,
                   attempts, sleeps, response, pending, invoked, probes, ret,
                   outcome, call, http>>

\* line 1576: result = self.analyze_website(url) is entered
CompareAnalyze ==
    /\ comparing.phase = "loop"
    /\ comparing.k <= Len(comparing.urls)
    /\ pc = "idle"
    /\ pc' = "fetch"
    /\ url' = comparing.urls[comparing.k]
    /\ retry_count' = 0
    /\ attempts' = 0
    /\ sleeps' = 0
    /\ response' = NoResponse
    /\ pending' = NoException
    /\ invoked' = <<>>
    /\ probes' = <<>>
    /\ ret' = PyNone
    /\ outcome' = "running"
    /\ comparing' = [comparing EXCEPT !.phase = "analyzing"]
    /\ UNCHANGED <<max_retries, weights, results, call, http>>

\* lines 1577-1578: the call has returned; a result that is not None is kept
CompareCollect ==
    /\ comparing.phase = "analyzing"
    /\ pc = "idle"
    /\ comparing' =
           [comparing EXCEPT
               !.phase = "loop",
               !.k = @ + 1,
               !.collected =
                   IF ret = PyNone \/ \E j \in DOMAIN @ : @[j] = url
                   THEN @ ELSE Append(@, url)]
    /\ UNCHANGED <<max_retries, weights, results, pc, url, retry_count,
                   attempts, sleeps, response, pending, invoked, probes, ret,
                   outcome, call, http>>

\* lines 1580-1582: nothing was kept, compare_websites returns
CompareReturnsNone ==
    /\ comparing.phase = "loop"
    /\ comparing.k > Len(comparing.urls)
    /\ comparing.collected = <<>>
    /\ comparing' = [comparing EXCEPT !.phase = "done", !.out = Returned(PyNone)]
    /\ UNCHANGED <<max_retries, weights, results, pc, url, retry_count,
                   attempts, sleeps, response, pending, invoked, probes, ret,
                   outcome, call, http>>

\* lines 1584-1585: the comparison is generated and printed; an exception of
\* _generate_comparison leaves compare_websites
\* return self._generate_comparison(results): the values of the local results
\* dict, in insertion order, are the entries analyze_website returned
CompareGenerate ==
    /\ comparing.phase = "loop"
    /\ comparing.k > Len(comparing.urls)
    /\ comparing.collected # <<>>
    /\ LET made == _generate_comparison(
                       [k \in DOMAIN comparing.collected |->
                           results[comparing.collected[k]]])
       IN  comparing' = [comparing EXCEPT
                            !.phase = "done",
                            !.out = IF made.raised THEN made
                                    ELSE Returned(PyNone)]
    /\ UNCHANGED <<max_retries, weights, results, pc, url, retry_count,
                   attempts, sleeps, response, pending, invoked, probes, ret,
                   outcome, call, http>>

CompareNext ==
    \* the urls arguments of the model: one URL, or two different ones
    \/ \E urls \in {<<u>> : u \in Urls}
                      \cup {pair \in {<<u, v>> : u \in Urls, v \in Urls} :
                                pair[1] # pair[2]} :
           CompareStart(urls)
    \/ CompareAnalyze
    \/ CompareCollect
    \/ CompareReturnsNone
    \/ CompareGenerate
    \/ \E status \in StatusCodes : GetResponds(status)
    \/ GetFails
    \/ Sleep
    \/ GetReturnsNone
    \/ Blocked
    \/ BeginAnalysis
    \/ \E probe \in RunProbes : RunSsl(probe)
    \/ RunOther
    \/ Aggregate
    \/ Except

CompareSpec == Init /\ [][CompareNext]_vars


\* C18: the weight table has exactly the nine keys with the weights 10, 15,
\* 15, 25, 10, 5, 10, 5, 5, which sum to 100, and no operation of the grader
\* (compare_websites, the analyze_website runs it makes, the analyzers they
\* call) changes it.
WeightTableFixed ==
    /\ weights = [ssl |-> 10, mobile |-> 15, page_speed |-> 15,
                  tech_stack |-> 25, ui_quality |-> 10, seo |-> 5,
                  security |-> 10, accessibility |-> 5, content |-> 5]
    /\ DOMAIN weights = {CategoryOrder[k] : k \in DOMAIN CategoryOrder}
    /\ weights["ssl"] + weights["mobile"] + weights["page_speed"]
           + weights["tech_stack"] + weights["ui_quality"] + weights["seo"]
           + weights["security"] + weights["accessibility"]
           + weights["content"] = 100

\* a compare_websites call over two URLs has ended after both runs returned an
\* entry, one of them a successful one
ComparisonOfTwoEnded ==
    /\ comparing.phase = "done"
    /\ Len(comparing.collected) = 2
    /\ outcome = "success"

\* C19: in compare_websites every URL has its own outcome, and whenever at
\* least one URL was analysed successfully the comparison completes without
\* raising, the blocked and the failed URLs being left out or reported as
\* failed.
ComparisonCompletes ==
    (/\ comparing.phase = "done"
     /\ \E k \in DOMAIN comparing.collected :
            "classification" \in DOMAIN results[comparing.collected[k]])
    => ~comparing.out.raised


-----------------------------------------------------------------------------
(* /api/analyze of app.py *)

\* lines 47-71 and 91-97: the requests answered without an engine run.
\* OPTIONS gets an empty 204; a body that is not JSON makes get_json raise,
\* which the except clause answers with 500; an empty object and a blank or
\* missing url get a 400
ApiRejects(req) ==
    /\ http.phase # "analyzing"
    /\ pc = "idle"
    /\ call = NoCall
    /\ comparing = NoComparison
    /\ http' =
           CASE req = "options" ->
                  [phase |-> "responded", ran |-> FALSE, code |-> 204, body |-> <<>>]
             [] req = "malformed" ->
                  [phase |-> "responded", ran |-> FALSE, code |-> 500,
                   body |-> [error |-> "Analysis failed", message |-> "Error"]]
             [] req = "empty" ->
                  [phase |-> "responded", ran |-> FALSE, code |-> 400,
                   body |-> [error |-> "No JSON data received",
                             message |-> "Please provide a URL to analyze"]]
             [] req = "blank" ->
                  [phase |-> "responded", ran |-> FALSE, code |-> 400,
                   body |-> [error |-> "No URL provided",
                             message |-> "Please provide a valid URL to analyze"]]
    /\ UNCHANGED <<max_retries, weights, results, pc, url, retry_count,
                   attempts, sleeps, response, pending, invoked, probes, ret,
                   outcome, call, comparing>>

\* lines 73-75: a grader is constructed with the defaults and its
\* analyze_website(url) is called
ApiAnalyze(u) ==
    /\ http.phase # "analyzing"
    /\ pc = "idle"
    /\ call = NoCall
    /\ comparing = NoComparison
    /\ http' = [phase |-> "analyzing", ran |-> TRUE, code |-> 0, body |-> <<>>]
    /\ max_retries' = DefaultMaxRetries
    /\ weights' = CategoryWeights
    /\ results' = <<>>
    /\ pc' = "fetch"
    /\ url' = u
    /\ retry_count' = 0
    /\ attempts' = 0
    /\ sleeps' = 0
    /\ response' = NoResponse
    /\ pending' = NoException
    /\ invoked' = <<>>
    /\ probes' = <<>>
    /\ ret' = PyNone
    /\ outcome' = "running"
    /\ UNCHANGED <<call, comparing>>

\* lines 77-89: analyze_website has returned; None is answered with 403,
\* every other value with 200 and status 'completed'
ApiRespond ==
    /\ http.phase = "analyzing"
    /\ pc = "idle"
    /\ http' =
           IF ret = PyNone
           THEN [phase |-> "responded", ran |-> TRUE, code |-> 403,
                 body |-> [error |-> "Analysis failed",
                           message |-> "Website blocked automated access or could not be reached"]]
           ELSE [phase |-> "responded", ran |-> TRUE, code |-> 200,
                 body |-> [url |-> url, status |-> "completed", results |-> ret]]
    /\ UNCHANGED <<max_retries, weights, results, pc, url, retry_count,
                   attempts, sleeps, response, pending, invoked, probes, ret,
                   outcome, call, comparing>>

ApiNext ==
    \/ \E req \in {"options", "malformed", "empty", "blank"} : ApiRejects(req)
    \/ \E u \in Urls : ApiAnalyze(u)
    \/ ApiRespond
    \* the sites answer with the statuses of the other runs and with 401, 429
    \* and two 5xx
    \/ \E status \in StatusCodes \cup {401, 429, 500, 503} : GetResponds(status)
    \/ GetFails
    \/ Sleep
    \/ Blocked
    \/ BeginAnalysis
    \/ \E probe \in RunProbes : RunSsl(probe)
    \/ RunOther
    \/ Aggregate
    \/ Except

\* the server takes requests one after the other; the loop of _get_with_retry
\* runs at least once, the grader of line 74 having the default max_retries
ApiSpec == Init /\ [][ApiNext]_vars

\* C20: /api/analyze answers a run that ended in the engine's except clause
\* with an error response and never with status 'completed'; a response with
\* status 'completed' carries a result with categories; and a run is answered
\* with HTTP 403 exactly when it returned the blocked sentinel.
ApiReportsRunFailure ==
    (http.phase = "responded" /\ http.ran) =>
        /\ outcome = "error" =>
               /\ http.code # 200
               /\ "error" \in DOMAIN http.body
               /\ "status" \notin DOMAIN http.body
        /\ ("status" \in DOMAIN http.body /\ http.body.status = "completed") =>
               "categories" \in DOMAIN http.body.results
        /\ http.code = 403 <=> outcome = "blocked"

-----------------------------------------------------------------------------
(* Properties of single checks *)

\* C21: in check_accessibility the label coverage is taken over the controls
\* that are not of type hidden, submit, button or image: when all of them are
\* labelled the page gets "All form controls have labels" (+1), from 80% on
\* "Most form controls have labels" (+0.5), and below that an issue and neither
\* of the two details.
LabelCoverageOverCountedControls ==
    LET doc == call.response.doc
        counted == doc.controls - doc.controlsExcluded
        labeled == doc.controlsLabeled
        r == call.out.result
        notes == {r.details[k] : k \in DOMAIN r.details}
                     \cup {r.issues[k] : k \in DOMAIN r.issues}
    IN  (call.fn = "accessibility" /\ ~call.out.raised /\ counted > 0) =>
            /\ labeled = counted => "All form controls have labels" \in notes
            /\ (labeled < counted /\ labeled * 100 >= 80 * counted) =>
                   "Most form controls have labels" \in notes
            /\ labeled * 100 < 80 * counted =>
                   /\ notes \cap {"All form controls have labels",
                                  "Most form controls have labels"} = {}
                   /\ notes \cap {"Only some form controls have labels",
                                  "No form controls have labels"} # {}

-----------------------------------------------------------------------------
(* The nine calls of lines 160-168 in any order *)

\* one of the nine analyzers that has not run yet runs, as a task of its own
\* would: it is given (url, response, soup, html) and its result is stored
\* under its key.  `invoked` lists the analyzers that have run in the order of
\* the category table, whatever the order they ran in.
RunInAnyOrder(name, probe) ==
    /\ pc = "analyze"
    /\ \A k \in DOMAIN invoked : invoked[k] # name
    \* check_ssl alone opens the certificate probe
    /\ (name = "ssl") <=> (probe # NoProbe)
    /\ LET out == RunAnalyzer(name, url, response, probe)
           ran == {name} \cup {invoked[k] : k \in DOMAIN invoked}
       IN  /\ invoked' = SelectSeq(CategoryOrder, LAMBDA c : c \in ran)
           /\ probes' = IF name = "ssl" THEN Append(probes, probe) ELSE probes
           /\ IF out.raised
              THEN /\ pending' = [exc |-> out.exc, stage |-> name]
                   /\ pc' = "except"
                   /\ results' = results
              ELSE /\ pending' = pending
                   /\ pc' = IF Len(invoked) + 1 = Len(CategoryOrder)
                            THEN "aggregate" ELSE "analyze"
                   /\ results' = [results EXCEPT ![url].categories =
                                      (name :> out.result) @@ @]
    /\ UNCHANGED <<max_retries, weights, url, retry_count, attempts, sleeps,
                   response, ret, outcome, call, comparing, http>>

AnyOrderNext ==
    \* one run on a newly constructed grader
    \/ \E u \in Urls : outcome = "" /\ Start(u)
    \/ \E status \in StatusCodes : GetResponds(status)
    \/ GetFails
    \/ Sleep
    \/ GetReturnsNone
    \/ Blocked
    \/ BeginAnalysis
    \/ \E name \in DOMAIN CategoryWeights, probe \in RunProbes \cup {NoProbe} :
           RunInAnyOrder(name, probe)
    \/ Aggregate
    \/ Except

AnyOrderSpec == Init /\ [][AnyOrderNext]_vars

\* C22: whatever the order the nine analyzers of a run are executed in, each
\* category result stored by the run is the result of that analyzer on the
\* shared inputs of the run (url, response, document, and for check_ssl the
\* outcome of its certificate probe) alone.
CategoriesIndependentOfOrder ==
    (pc \in {"analyze", "aggregate"} \/ (pc = "idle" /\ outcome = "success")) =>
        \A c \in DOMAIN results[url].categories :
            results[url].categories[c] =
                RunAnalyzer(c, url, response,
                            IF c = "ssl" THEN probes[1] ELSE NoProbe).result

\* check_content_quality and check_accessibility, the last two of the table,
\* have stored their results before any of the other seven ran
ContentRanFirst ==
    /\ pc = "analyze"
    /\ DOMAIN results[url].categories = {"content", "accessibility"}

\* C23: check_mobile returns min(base + 0.5 * k, 5), base being the sum of the
\* fixed increments (viewport 1, its configuration 1, media queries 1, mobile
\* meta tags 0.5, touch icons 0.5, responsive images 1) and k the number of
\* detected mobile frameworks; the score never exceeds 5.
MobileScoreIsClampedSum ==
    LET doc == call.response.doc
        one(b) == IF b THEN 1 ELSE 0
        base == Pts(1, 1) * one(doc.viewport # "none")
                    + Pts(1, 1) * one(doc.viewport = "configured")
                    + Pts(1, 1) * one(doc.mediaQueries > 0)
                    + Pts(1, 2) * one(doc.mobileMeta > 0)
                    + Pts(1, 2) * one(doc.touchIcons > 0)
                    + Pts(1, 1) * one(doc.imgsSrcset + doc.pictureSources > 0)
        k == Cardinality(doc.mobileFrameworks)
    IN  (call.fn = "mobile" /\ ~call.out.raised) =>
            /\ call.out.result.score = Min(base + k * Pts(1, 2), Pts(5, 1))
            /\ call.out.result.score <= Pts(5, 1)

\* check_mobile has returned 5 for a page whose increments sum to 4.5 and that
\* uses two mobile frameworks: the clamp has cut 5.5 down
MobileBonusClamped ==
    /\ call.fn = "mobile"
    /\ ~call.out.raised
    /\ call.response.doc.viewport = "configured"
    /\ call.response.doc.mediaQueries > 0
    /\ call.response.doc.mobileMeta = 0
    /\ call.response.doc.touchIcons > 0
    /\ call.response.doc.imgsSrcset > 0
    /\ Cardinality(call.response.doc.mobileFrameworks) = 2
    /\ call.out.result.score = Pts(5, 1)

\* C24: the heading hierarchy is proper exactly when the levels that occur
\* form a prefix h1..hk, k from 0 to 6.  check_ui_quality records "Proper
\* heading hierarchy" (+0.5) for exactly these documents, the one without any
\* heading included; check_accessibility records its own detail (+0.5) for
\* exactly those of them that have an H1.
HierarchyProperIffPrefix ==
    LET hs == call.response.doc.headings
        present == {i \in 1..6 : hs[i] > 0}
        prefix == \E k \in 0..6 : present = 1..k
        details == {call.out.result.details[j] :
                        j \in DOMAIN call.out.result.details}
    IN  /\ (call.fn = "ui_quality" /\ ~call.out.raised) =>
               ("Proper heading hierarchy" \in details <=> prefix)
        /\ (call.fn = "accessibility" /\ ~call.out.raised) =>
               ("Proper heading hierarchy for screen readers" \in details
                    <=> (prefix /\ hs[1] > 0))

\* check_ui_quality has judged a page without any heading
NoHeadingsJudgedProper ==
    /\ call.fn = "ui_quality"
    /\ ~call.out.raised
    /\ call.response.doc.headings = <<0, 0, 0, 0, 0, 0>>
    /\ \E j \in DOMAIN call.out.result.details :
           call.out.result.details[j] = "Proper heading hierarchy"

\* C25: in check_security_headers the header bonus is a function of the number
\* n of the eight named headers in the response: exactly one of the four tier
\* notes is recorded, the one of n (>= 5: 2 points, 3-4: 1.5, 1-2: 1, 0: no
\* points and an issue), the score exceeds that of the same response without
\* the named headers by exactly the tier's points, and the score does not drop
\* when a further named header is added.
HeaderBonusTiered ==
    LET resp == call.response
        r == call.out.result
        named == {"Strict-Transport-Security", "Content-Security-Policy",
                  "X-Content-Type-Options", "X-Frame-Options",
                  "X-XSS-Protection", "Referrer-Policy", "Feature-Policy",
                  "Permissions-Policy"}
        n == Cardinality(resp.headers \cap named)
        notes == {r.details[k] : k \in DOMAIN r.details}
                     \cup {r.issues[k] : k \in DOMAIN r.issues}
        tier == IF n >= 5 THEN "Excellent security headers implementation"
                ELSE IF n >= 3 THEN "Good security headers implementation"
                ELSE IF n >= 1 THEN "Basic security headers implementation"
                ELSE "No security headers implemented"
        points == IF n >= 5 THEN Pts(2, 1)
                  ELSE IF n >= 3 THEN Pts(3, 2)
                  ELSE IF n >= 1 THEN Pts(1, 1)
                  ELSE 0
        scoreWith(hdrs) ==
            check_security_headers(call.url,
                                   [resp EXCEPT !.headers = hdrs]).result.score
    IN  (call.fn = "security" /\ ~call.out.raised) =>
            /\ notes \cap {"Excellent security headers implementation",
                           "Good security headers implementation",
                           "Basic security headers implementation",
                           "No security headers implemented"} = {tier}
            /\ r.score = scoreWith(resp.headers \ named) + points
            /\ \A h \in named \ resp.headers :
                   scoreWith(resp.headers \cup {h}) >= r.score

\* check_security_headers has scored a response with exactly four of the named
\* headers, one below the top tier
FourHeadersScored ==
    /\ call.fn = "security"
    /\ ~call.out.raised
    /\ Cardinality(call.response.headers) = 4
    /\ \E k \in DOMAIN call.out.result.details :
           call.out.result.details[k] = "Good security headers implementation"

-----------------------------------------------------------------------------
(* Properties of the stored entries *)

\* C26: in every successfully analysed entry the stored percentage equals the
\* stored total_score.
PercentageEqualsTotalScore ==
    \A u \in DOMAIN results :
        "classification" \in DOMAIN results[u] =>
            results[u].percentage = results[u].total_score

\* C27: analyze_website never raises to its caller: every call that has ended
\* has returned None (blocked), or the error entry it stored, or the complete
\* result it stored, and every exception raised inside the call has been (or is
\* about to be) handled by its except clause.
AnalyzeNeverRaises ==
    /\ (pc = "idle" /\ outcome # "") =>
           \/ outcome = "blocked" /\ ret = PyNone
           \/ /\ outcome = "error"
              /\ ret = results[url]
              /\ "error" \in DOMAIN ret
           \/ /\ outcome = "success"
              /\ ret = results[url]
              /\ "classification" \in DOMAIN ret
              /\ DOMAIN ret.categories = DOMAIN CategoryWeights
    /\ pending # NoException => (pc = "except" \/ outcome = "error")

\* a call has returned the error entry after check_accessibility raised
AnalyzerFailureReturned ==
    /\ pc = "idle"
    /\ outcome = "error"
    /\ pending = [exc |-> "ValueError", stage |-> "accessibility"]
    /\ "error" \in DOMAIN ret

\* C28: whenever no call is running, every entry of the results map is either
\* a complete result (the nine categories, total_score, classification and
\* lead_potential) or an error entry without categories.
NoPartialEntryLeft ==
    pc = "idle" =>
        \A u \in DOMAIN results :
            LET entry == results[u]
            IN  \/ /\ {"categories", "total_score", "classification",
                       "lead_potential"} \subseteq DOMAIN entry
                   /\ "error" \notin DOMAIN entry
                   /\ DOMAIN entry.categories = DOMAIN CategoryWeights
                \/ /\ "error" \in DOMAIN entry
                   /\ "categories" \notin DOMAIN entry

\* a call has returned after check_accessibility raised with seven categories
\* already stored, on a grader that holds a complete result of another URL
MidwayFailureCleanedUp ==
    /\ pc = "idle"
    /\ outcome = "error"
    /\ pending.stage = "accessibility"
    /\ Len(invoked) = 8
    /\ \E u \in DOMAIN results : u # url /\ "classification" \in DOMAIN results[u]

\* C29: the results map changes only in steps of a call whose response has
\* arrived with a status other than 403, or whose except clause runs; so a
\* blocked call, from its start to its return of None, leaves the map as it
\* was, the entry of an earlier run of the same URL included.  And no step of
\* a call changes or removes the entry of a URL other than its own.
BlockedRunLeavesResults ==
    [][/\ results' # results =>
              /\ pc \in {"fetched", "analyze", "aggregate", "except"}
              /\ response.status_code # 403
       /\ \A u \in DOMAIN results :
              u # url => (u \in DOMAIN results' /\ results'[u] = results[u])]_vars

\* a call for a URL that has a complete entry from an earlier run, next to the
\* entry of another URL, has been blocked
BlockedWithEarlierEntry ==
    /\ pc = "idle"
    /\ outcome = "blocked"
    /\ url \in DOMAIN results
    /\ "classification" \in DOMAIN results[url]
    /\ DOMAIN results # {url}

\* C30: a call is blocked exactly when the status of its response is 403; a
\* call whose response has any other status (401, 404, 429, 500, 503 as much
\* as 200) invokes all nine analyzers and returns a classified result whose
\* status_code is that status.
OnlyForbiddenIsBlocked ==
    (pc = "idle" /\ outcome \in {"blocked", "success", "error"}
                 /\ response # NoResponse) =>
        /\ outcome = "blocked" <=> response.status_code = 403
        /\ response.status_code # 403 =>
               /\ Len(invoked) = Len(CategoryOrder)
               /\ "classification" \in DOMAIN ret
               /\ ret.status_code = response.status_code
=============================================================================
